---------------------------- MODULE Spec2Model ----------------------------
(***************************************************************************)
(* Saga-style rescue / restore orchestration of gce_rescue_v2.             *)
(*                                                                         *)
(* One VM and its disks, metadata and snapshots form the remote resource   *)
(* (variable cloud).  An orchestrator object (RescueOrchestrator or        *)
(* RestoreOrchestrator) drives it through a fixed sequence of operations,  *)
(* records every result in its StateTracker and, on a failed step, hands   *)
(* the tracker to the RollbackHandler.                                     *)
(*                                                                         *)
(* The compute client is external.  Every call of it either is accepted    *)
(* and takes effect, or raises and has no effect; which of the two is an   *)
(* input of the step (outcome "error"), as is a polling wait that runs     *)
(* out of time after the request was accepted (outcome "timeout").         *)
(***************************************************************************)
EXTENDS Integers, Sequences, FiniteSets, TLC

\* ------------------------------------------------------------------ bounds
MaxFaults == 2      \* injected call errors / timeouts over all runs
MaxManual == 1      \* calls of the public rollback() per orchestrator
MaxTracked == 2     \* entries of a tracker handed to the rollback handler
MaxClock == 20      \* seconds a polling operation is followed for
MaxMissing == 2     \* required permissions the caller may lack
MaxSeen == 3        \* polled statuses that are remembered
MaxWrites == 1      \* metadata writes of other clients during a run

\* ------------------------------------------------------------ identifiers
\* A name is a pair (base, t): t is the int(time.time()) suffix of a
\* generated name, 0 for a name that was not generated.
Nm(b, t) == [base |-> b, t |-> t]
None == Nm("None", 0)
OrigDisk == Nm("orig-disk", 0)
PersistentDisk0 == Nm("persistent-disk-0", 0)
RescueDiskName(t) == Nm("rescue-disk", t)
IsRescueDiskName(n) == n.base = "rescue-disk"
SnapshotName(disk_name, t) == [base |-> "pre-rescue", disk |-> disk_name, t |-> t]

UserItem == [key |-> "foo", value |-> Nm("bar", 0)]
RescueKeys == {"rescue-mode", "startup-script", "rescue-original-disk"}

Outcomes == {"ok", "error", "timeout"}

\* --------------------------------------------------------------- sequences
Reverse(s) == [i \in 1..Len(s) |-> s[Len(s) + 1 - i]]
Range(s) == {s[i] : i \in 1..Len(s)}

\* ---------------------------------------------------------- OperationResult
NoData == [kind |-> "None"]
Ok(data) == [success |-> TRUE, rollback_data |-> data, error |-> "None"]
Fail(err) == [success |-> FALSE, rollback_data |-> NoData, error |-> err]
Out(res, c, calls) == [result |-> res, cloud |-> c, calls |-> calls]
Call(api, arg, c) == [api |-> api, arg |-> arg, status |-> c.status]

\* ------------------------------------------------------ the remote resource
AttachedDevices(c) == {c.attached[i].deviceName : i \in 1..Len(c.attached)}
AttachedSources(c) == {c.attached[i].source : i \in 1..Len(c.attached)}

\* first attached disk with this device name, as `for disk in vm['disks']`
RECURSIVE FindDevice(_, _, _)
FindDevice(att, device_name, i) ==
    IF i > Len(att) THEN 0
    ELSE IF att[i].deviceName = device_name THEN i
    ELSE FindDevice(att, device_name, i + 1)

\* instances().attachDisk: accepted for an existing disk that is not attached
AttachAccepted(c, body, o) ==
    /\ o = "ok"
    /\ body.source \in c.disks
    /\ body.source \notin AttachedSources(c)
    /\ body.deviceName \notin AttachedDevices(c)
DoAttach(c, body) == [c EXCEPT !.attached = Append(@, body)]

\* instances().detachDisk: accepted for a device that is attached
DetachAccepted(c, device_name, o) ==
    o = "ok" /\ device_name \in AttachedDevices(c)
DoDetach(c, device_name) ==
    LET att == c.attached
        i == FindDevice(att, device_name, 1)
    IN  [c EXCEPT !.attached =
             [j \in 1..(Len(att) - 1) |-> IF j < i THEN att[j] ELSE att[j + 1]]]

\* disks().delete: accepted for an existing disk no VM uses
DeleteAccepted(c, disk_name, o) ==
    o = "ok" /\ disk_name \in c.disks /\ disk_name \notin AttachedSources(c)

\* instances().setMetadata: accepted with the current fingerprint
SetMetadataAccepted(c, body, o) == o = "ok" /\ body.fingerprint = c.fingerprint
DoSetMetadata(c, body) ==
    [c EXCEPT !.items = body.items, !.fingerprint = @ + 1]

\* ------------------------------------------------------------- operations
\* Every execute returns Out(result, cloud after the call, client calls made);
\* every rollback returns RB(returned bool, cloud after the call, calls made).
RB(ok, c, calls) == [ok |-> ok, cloud |-> c, calls |-> calls]

\* the outcomes a call site can have: a wait can time out only where the
\* operation polls
StopVMOutcomes(c) == IF c.status = "RUNNING" THEN Outcomes ELSE {"ok", "error"}
StartVMOutcomes(c) == IF c.status = "TERMINATED" THEN Outcomes ELSE {"ok", "error"}
CallOutcomes == {"ok", "error"}
SnapshotOutcomes == Outcomes \cup {"failed"}

StopVMOperation_execute(c, o) ==
    IF o = "error" THEN Out(Fail("exception"), c, <<>>)
    ELSE IF c.status = "RUNNING" THEN
        IF o = "timeout"
        THEN Out(Fail("timeout"), [c EXCEPT !.status = "STOPPING"],
                 <<Call("instances.stop", None, c)>>)
        ELSE Out(Ok([kind |-> "status", original_status |-> c.status]),
                 [c EXCEPT !.status = "TERMINATED"],
                 <<Call("instances.stop", None, c)>>)
    ELSE IF c.status = "TERMINATED" THEN
        Out(Ok([kind |-> "status", original_status |-> c.status]), c, <<>>)
    ELSE Out(Fail("unexpected state"), c, <<>>)

\* a compensation that first reads the VM's status
StopVMOperation_rollback_idempotent(c, d, o) ==
    IF d.original_status = "RUNNING" /\ c.status # "RUNNING" THEN
        IF o = "error" THEN RB(FALSE, c, <<>>)
        ELSE IF o = "timeout"
        THEN RB(FALSE, [c EXCEPT !.status = "STARTING"],
                <<Call("instances.start", None, c)>>)
        ELSE RB(TRUE, [c EXCEPT !.status = "RUNNING"],
                <<Call("instances.start", None, c)>>)
    ELSE RB(TRUE, c, <<>>)

StopVMOperation_rollback(c, d, o) ==
    IF d.original_status = "RUNNING" THEN
        IF o = "error" THEN RB(FALSE, c, <<>>)
        ELSE IF o = "timeout"
        THEN RB(FALSE, [c EXCEPT !.status = "STARTING"],
                <<Call("instances.start", None, c)>>)
        ELSE RB(TRUE, [c EXCEPT !.status = "RUNNING"],
                <<Call("instances.start", None, c)>>)
    ELSE RB(TRUE, c, <<>>)

StartVMOperation_execute(c, o) ==
    IF o = "error" THEN Out(Fail("exception"), c, <<>>)
    ELSE IF c.status = "TERMINATED" THEN
        IF o = "timeout"
        THEN Out(Fail("timeout"), [c EXCEPT !.status = "STARTING"],
                 <<Call("instances.start", None, c)>>)
        ELSE Out(Ok([kind |-> "status", original_status |-> c.status]),
                 [c EXCEPT !.status = "RUNNING"],
                 <<Call("instances.start", None, c)>>)
    ELSE IF c.status = "RUNNING" THEN
        Out(Ok([kind |-> "status", original_status |-> c.status]), c, <<>>)
    ELSE Out(Fail("unexpected state"), c, <<>>)

\* a compensation that reports success without stopping the VM
StartVMOperation_rollback_noStop(c, d, o) == RB(TRUE, c, <<>>)

StartVMOperation_rollback(c, d, o) ==
    IF d.original_status = "TERMINATED" THEN
        IF o = "error" THEN RB(FALSE, c, <<>>)
        ELSE IF o = "timeout"
        THEN RB(FALSE, [c EXCEPT !.status = "STOPPING"],
                <<Call("instances.stop", None, c)>>)
        ELSE RB(TRUE, [c EXCEPT !.status = "TERMINATED"],
                <<Call("instances.stop", None, c)>>)
    ELSE RB(TRUE, c, <<>>)

CreateDiskOperation_execute(c, disk_name, o) ==
    IF o = "error" \/ disk_name \in c.disks THEN Out(Fail("exception"), c, <<>>)
    ELSE IF o = "timeout"
    THEN Out(Fail("timeout"), [c EXCEPT !.disks = @ \cup {disk_name}],
             <<Call("disks.insert", disk_name, c)>>)
    ELSE Out(Ok([kind |-> "disk", disk_name |-> disk_name]),
             [c EXCEPT !.disks = @ \cup {disk_name}],
             <<Call("disks.insert", disk_name, c)>>)

\* a compensation that reports success without deleting the disk
CreateDiskOperation_rollback_reported(c, d, o) == RB(TRUE, c, <<>>)

CreateDiskOperation_rollback(c, d, o) ==
    IF DeleteAccepted(c, d.disk_name, o)
    THEN RB(TRUE, [c EXCEPT !.disks = @ \ {d.disk_name}],
            <<Call("disks.delete", d.disk_name, c)>>)
    ELSE RB(FALSE, c, <<>>)

AttachBody(disk_name, boot) ==
    [source |-> disk_name, boot |-> boot, autoDelete |-> FALSE,
     deviceName |-> disk_name, mode |-> "READ_WRITE"]

AttachDiskOperation_execute(c, disk_name, boot, o) ==
    IF AttachAccepted(c, AttachBody(disk_name, boot), o)
    THEN Out(Ok([kind |-> "device", device_name |-> disk_name]),
             DoAttach(c, AttachBody(disk_name, boot)),
             <<Call("instances.attachDisk", AttachBody(disk_name, boot), c)>>)
    ELSE Out(Fail("exception"), c, <<>>)

AttachDiskOperation_rollback(c, d, o) ==
    IF DetachAccepted(c, d.device_name, o)
    THEN RB(TRUE, DoDetach(c, d.device_name),
            <<Call("instances.detachDisk", d.device_name, c)>>)
    ELSE RB(FALSE, c, <<>>)

DetachDiskOperation_execute(c, device_name, o) ==
    IF o = "error" THEN Out(Fail("exception"), c, <<>>)
    ELSE IF FindDevice(c.attached, device_name, 1) = 0
    THEN Out(Fail("not found"), c, <<>>)
    ELSE Out(Ok([kind |-> "disk_info",
                 disk_info |-> c.attached[FindDevice(c.attached, device_name, 1)]]),
             DoDetach(c, device_name),
             <<Call("instances.detachDisk", device_name, c)>>)

\* a compensation that re-attaches the way AttachDiskOperation attaches
DetachDiskOperation_rollback_asAttached(c, d, o) ==
    IF AttachAccepted(c, AttachBody(d.disk_info.source, d.disk_info.boot), o)
    THEN RB(TRUE, DoAttach(c, AttachBody(d.disk_info.source, d.disk_info.boot)),
            <<Call("instances.attachDisk",
                   AttachBody(d.disk_info.source, d.disk_info.boot), c)>>)
    ELSE RB(FALSE, c, <<>>)

DetachDiskOperation_rollback(c, d, o) ==
    IF AttachAccepted(c, d.disk_info, o)
    THEN RB(TRUE, DoAttach(c, d.disk_info),
            <<Call("instances.attachDisk", d.disk_info, c)>>)
    ELSE RB(FALSE, c, <<>>)

SetMetadataOperation_execute(c, metadata_items, o) ==
    LET original_metadata == [fingerprint |-> c.fingerprint, items |-> c.items]
        new_metadata == [fingerprint |-> c.fingerprint, items |-> metadata_items]
    IN  IF SetMetadataAccepted(c, new_metadata, o)
        THEN Out(Ok([kind |-> "metadata", original_metadata |-> original_metadata]),
                 DoSetMetadata(c, new_metadata),
                 <<Call("instances.setMetadata", new_metadata, c)>>)
        ELSE Out(Fail("exception"), c, <<>>)

\* a compensation that submits the fingerprint saved by execute()
SetMetadataOperation_rollback_savedToken(c, d, o) ==
    LET restore_metadata == [fingerprint |-> d.original_metadata.fingerprint,
                             items |-> d.original_metadata.items]
    IN  IF SetMetadataAccepted(c, restore_metadata, o)
        THEN RB(TRUE, DoSetMetadata(c, restore_metadata),
                <<Call("instances.setMetadata", restore_metadata, c)>>)
        ELSE RB(FALSE, c, <<>>)

SetMetadataOperation_rollback(c, d, o) ==
    LET restore_metadata == [fingerprint |-> c.fingerprint,
                             items |-> d.original_metadata.items]
    IN  IF SetMetadataAccepted(c, restore_metadata, o)
        THEN RB(TRUE, DoSetMetadata(c, restore_metadata),
                <<Call("instances.setMetadata", restore_metadata, c)>>)
        ELSE RB(FALSE, c, <<>>)

CreateSnapshotOperation_execute(c, disk_name, t, o) ==
    LET snapshot_name == SnapshotName(disk_name, t)
        made == [c EXCEPT !.snapshots = @ \cup {snapshot_name}]
        call == <<Call("disks.createSnapshot", snapshot_name, c)>>
    IN  IF o = "error" \/ disk_name \notin c.disks
        THEN Out(Fail("exception"), c, <<>>)
        ELSE IF o = "timeout" THEN Out(Fail("timeout"), made, call)
        ELSE IF o = "failed" THEN Out(Fail("snapshot_failed"), made, call)
        ELSE Out(Ok([kind |-> "snapshot", snapshot_name |-> snapshot_name,
                     disk_name |-> disk_name, created_by_operation |-> TRUE]),
                 made, call)

\* a compensation that deletes whatever snapshot the record names
CreateSnapshotOperation_rollback_unflagged(c, d, o) ==
    IF d.snapshot_name = None THEN RB(TRUE, c, <<>>)
    ELSE IF o = "ok" /\ d.snapshot_name \in c.snapshots
    THEN RB(TRUE, [c EXCEPT !.snapshots = @ \ {d.snapshot_name}],
            <<Call("snapshots.delete", d.snapshot_name, c)>>)
    ELSE RB(TRUE, c, <<>>)

CreateSnapshotOperation_rollback(c, d, o) ==
    IF ~d.created_by_operation THEN RB(TRUE, c, <<>>)
    ELSE IF d.snapshot_name = None THEN RB(TRUE, c, <<>>)
    ELSE IF o = "ok" /\ d.snapshot_name \in c.snapshots
    THEN RB(TRUE, [c EXCEPT !.snapshots = @ \ {d.snapshot_name}],
            <<Call("snapshots.delete", d.snapshot_name, c)>>)
    ELSE RB(TRUE, c, <<>>)

DeleteDiskOperation_execute(c, disk_name, o) ==
    IF DeleteAccepted(c, disk_name, o)
    THEN Out(Ok(NoData), [c EXCEPT !.disks = @ \ {disk_name}],
             <<Call("disks.delete", disk_name, c)>>)
    ELSE Out(Fail("exception"), c, <<>>)

DeleteDiskOperation_rollback(c, d, o) == RB(FALSE, c, <<>>)

\* -------------------------------------------------------------- validators
\* CredentialsValidator and IAMPermissionsValidator ask the outside world:
\* their verdicts are inputs of validate().
HasRescueMode(items) == \E i \in 1..Len(items) : items[i].key = "rescue-mode"
HasBootDisk(att) == \E i \in 1..Len(att) : att[i].boot

VALID_STATES == {"RUNNING", "TERMINATED"}

\* a forward validator that accepts a VM in any status
VMStateValidator_anyStatus(c) ==
    /\ ~HasRescueMode(c.items)
    /\ HasBootDisk(c.attached)

VMStateValidator(c) ==
    /\ ~HasRescueMode(c.items)
    /\ c.status \in VALID_STATES
    /\ HasBootDisk(c.attached)

\* a reverse validator that looks at the disks only
VMRestoreStateValidator_disksOnly(c) ==
    /\ \E i \in 1..Len(c.attached) : IsRescueDiskName(c.attached[i].source)
    /\ \E i \in 1..Len(c.attached) :
          /\ ~IsRescueDiskName(c.attached[i].source)
          /\ ~c.attached[i].boot

VMRestoreStateValidator(c) ==
    /\ HasRescueMode(c.items)
    /\ \E i \in 1..Len(c.attached) : IsRescueDiskName(c.attached[i].source)
    /\ \E i \in 1..Len(c.attached) :
          /\ ~IsRescueDiskName(c.attached[i].source)
          /\ ~c.attached[i].boot

\* ValidationResult: the validator's name and its verdict
ValidationResult(validator_name, passed) ==
    [validator_name |-> validator_name, passed |-> passed]

all_passed(results) == \A i \in 1..Len(results) : results[i].passed

get_failures(results) == SelectSeq(results, LAMBDA r : ~r.passed)

\* a runner that stops at the first validator that fails
RECURSIVE run_all_untilFailure(_)
run_all_untilFailure(validators) ==
    IF validators = <<>> THEN <<>>
    ELSE IF ~Head(validators).passed THEN <<Head(validators)>>
    ELSE <<Head(validators)>> \o run_all_untilFailure(Tail(validators))

\* ValidationRunner.run_all: `for validator in self.validators`, each
\* validate() result added to the results; a validator is given by the
\* result its validate() returns
RECURSIVE run_all(_)
run_all(validators) ==
    IF validators = <<>> THEN <<>>
    ELSE <<Head(validators)>> \o run_all(Tail(validators))

\* main.rescue_vm / main.restore_vm: execute() is reached only behind
\* `if not orchestrator.validate(): return False`
\* a caller that goes on to execute() whatever validate() returned
MainProceeds_always(validate_returned) == TRUE

MainProceeds(validate_returned) == validate_returned

\* ------------------------------------------------------------ StateTracker
OperationState(operation_name, res) ==
    [operation_name |-> operation_name, success |-> res.success,
     rollback_data |-> res.rollback_data]

\* a tracker that keeps only the steps that succeeded
add_operation_successOnly(operations, operation_name, res) ==
    IF res.success THEN Append(operations, OperationState(operation_name, res))
    ELSE operations

\* a tracker that puts the newest entry first
add_operation_newestFirst(operations, operation_name, res) ==
    <<OperationState(operation_name, res)>> \o operations

add_operation(operations, operation_name, res) ==
    Append(operations, OperationState(operation_name, res))

get_successful_operations(operations) ==
    SelectSeq(operations, LAMBDA op : op.success)

get_failed_operations(operations) ==
    SelectSeq(operations, LAMBDA op : ~op.success)

\* the successful operations in the order they ran
get_rollback_operations_forward(operations) ==
    get_successful_operations(operations)

get_rollback_operations(operations) ==
    Reverse(get_successful_operations(operations))

\* ----------------------------------------------------------- orchestrators
RescueOperationsMap ==
    [n \in {"Create Snapshot", "Stop VM", "Create Rescue Disk", "Detach Boot Disk",
            "Attach Rescue Disk", "Set Metadata", "Start VM", "Attach Original Disk"} |->
        CASE n = "Create Snapshot" -> "CreateSnapshotOperation"
          [] n = "Stop VM" -> "StopVMOperation"
          [] n = "Create Rescue Disk" -> "CreateDiskOperation"
          [] n = "Detach Boot Disk" -> "DetachDiskOperation"
          [] n = "Attach Rescue Disk" -> "AttachDiskOperation"
          [] n = "Set Metadata" -> "SetMetadataOperation"
          [] n = "Start VM" -> "StartVMOperation"
          [] n = "Attach Original Disk" -> "AttachDiskOperation"]

\* a map that also lists the delete step
RestoreOperationsMap_withDelete ==
    [n \in {"Stop VM", "Detach Rescue Disk", "Detach Original Disk",
            "Attach Original Disk", "Set Metadata", "Start VM",
            "Delete Rescue Disk"} |->
        CASE n = "Stop VM" -> "StopVMOperation"
          [] n = "Detach Rescue Disk" -> "DetachDiskOperation"
          [] n = "Detach Original Disk" -> "DetachDiskOperation"
          [] n = "Attach Original Disk" -> "AttachDiskOperation"
          [] n = "Set Metadata" -> "SetMetadataOperation"
          [] n = "Start VM" -> "StartVMOperation"
          [] n = "Delete Rescue Disk" -> "DeleteDiskOperation"]

RestoreOperationsMap ==
    [n \in {"Stop VM", "Detach Rescue Disk", "Detach Original Disk",
            "Attach Original Disk", "Set Metadata", "Start VM"} |->
        CASE n = "Stop VM" -> "StopVMOperation"
          [] n = "Detach Rescue Disk" -> "DetachDiskOperation"
          [] n = "Detach Original Disk" -> "DetachDiskOperation"
          [] n = "Attach Original Disk" -> "AttachDiskOperation"
          [] n = "Set Metadata" -> "SetMetadataOperation"
          [] n = "Start VM" -> "StartVMOperation"]

EmptyMap == [n \in {} |-> "None"]

NoInfo ==
    [original_disk_name |-> None, original_device_name |-> None,
     rescue_disk_name |-> None, rescue_device_name |-> None]

\* RescueOrchestrator._get_original_disk_info: the first disk flagged boot
RECURSIVE FirstBoot(_, _)
FirstBoot(att, i) ==
    IF i > Len(att) THEN 0
    ELSE IF att[i].boot THEN i
    ELSE FirstBoot(att, i + 1)

get_original_disk_info(c, inf) ==
    LET i == FirstBoot(c.attached, 1)
    IN  IF i = 0 THEN inf
        ELSE [inf EXCEPT !.original_disk_name = c.attached[i].source,
                         !.original_device_name = c.attached[i].deviceName]

\* RestoreOrchestrator._get_disk_info: the original disk by the metadata
\* marker, the rescue disk by its name; a later match overwrites an earlier
RECURSIVE FirstKey(_, _, _)
FirstKey(items, key, i) ==
    IF i > Len(items) THEN 0
    ELSE IF items[i].key = key THEN i
    ELSE FirstKey(items, key, i + 1)

RECURSIVE ScanDisks(_, _, _)
ScanDisks(att, inf, i) ==
    IF i > Len(att) THEN inf
    ELSE IF IsRescueDiskName(att[i].source)
    THEN ScanDisks(att, [inf EXCEPT !.rescue_disk_name = att[i].source,
                                    !.rescue_device_name = att[i].deviceName], i + 1)
    ELSE IF att[i].source = inf.original_disk_name
    THEN ScanDisks(att, [inf EXCEPT !.original_device_name = att[i].deviceName], i + 1)
    ELSE ScanDisks(att, inf, i + 1)

get_disk_info(c, inf) ==
    LET k == FirstKey(c.items, "rescue-original-disk", 1)
        named == IF k = 0 THEN inf
                 ELSE [inf EXCEPT !.original_disk_name = c.items[k].value]
    IN  ScanDisks(c.attached, named, 1)

\* a clean-up that keeps nothing
get_clean_metadata_nothing(c) == <<>>

\* RestoreOrchestrator._get_clean_metadata
get_clean_metadata(c) ==
    SelectSeq(c.items, LAMBDA item : item.key \notin RescueKeys)

\* the metadata_items list of the rescue workflow's step 5
RescueMetadataItems(original_disk_name, t) ==
    << [key |-> "startup-script", value |-> Nm("rescue_mount.sh", 0)],
       [key |-> "rescue-mode", value |-> Nm("time", t)],
       [key |-> "rescue-original-disk", value |-> original_disk_name] >>

\* ---------------------------------------------------------- RollbackHandler

\* dispatch of operation.rollback(rollback_data) on the operation's class
Compensate(class, c, d, o) ==
    CASE class = "StopVMOperation" -> StopVMOperation_rollback(c, d, o)
      [] class = "StartVMOperation" -> StartVMOperation_rollback(c, d, o)
      [] class = "CreateDiskOperation" -> CreateDiskOperation_rollback(c, d, o)
      [] class = "AttachDiskOperation" -> AttachDiskOperation_rollback(c, d, o)
      [] class = "DetachDiskOperation" -> DetachDiskOperation_rollback(c, d, o)
      [] class = "SetMetadataOperation" -> SetMetadataOperation_rollback(c, d, o)
      [] class = "CreateSnapshotOperation" -> CreateSnapshotOperation_rollback(c, d, o)
      [] class = "DeleteDiskOperation" -> DeleteDiskOperation_rollback(c, d, o)

\* outcomes the compensation's client calls can have
CompensateOutcomes(class, d) ==
    CASE class = "StopVMOperation" ->
            IF d.original_status = "RUNNING" THEN Outcomes ELSE {"ok"}
      [] class = "StartVMOperation" ->
            IF d.original_status = "TERMINATED" THEN Outcomes ELSE {"ok"}
      [] OTHER -> CallOutcomes

\* ------------------------------------------------------------------- state
VARIABLES
    cloud,           \* the VM: status, attached disks, metadata; disks; snapshots
    wf,              \* "none", "rescue" or "restore": the orchestrator's class
    entry,           \* "main" (rescue_vm / restore_vm) or "direct" (the class)
    config,          \* RescueConfig / RestoreConfig fields the workflows read
    pc,              \* position of the caller / of execute()
    validation,      \* ValidationResults.results of validate(), <<>> before
    tracker,         \* StateTracker.operations
    operations_map,  \* orchestrator.operations_map
    info,            \* disk names and device names found by disk discovery
    result,          \* what execute() returned: "None" while it has not
    rbOps,           \* RollbackHandler.rollback: steps still to visit
    rbAll,           \* RollbackHandler.rollback: all_succeeded
    rbManual,        \* the running rollback was called through rollback()
    rbResult,        \* what the last RollbackHandler.rollback returned
    rbInv,           \* number of RollbackHandler.rollback calls of this run
    execLog,         \* every Operation.execute() call of this run, in order
    compLog,         \* every Operation.rollback() call of this run, in order
    calls,           \* every accepted mutating client call of this run
    runs,            \* orchestrators created so far; also the clock
    faults,          \* errors and timeouts injected so far
    manual,          \* calls of rollback() on this orchestrator
    pre,             \* the remote resource when this orchestrator was created
    prev,            \* the previous orchestrator: its class and its pre
    poll,            \* one polling operation's execute(), step by step
    probe,           \* one validator's validate(): what it is given and returns
    meta             \* restore's step 5 call by call: what its reads returned

vars == <<cloud, wf, entry, config, pc, validation, tracker, operations_map,
          info, result, rbOps, rbAll, rbManual, rbResult, rbInv, execLog,
          compLog, calls, runs, faults, manual, pre, prev, poll,
                   probe, meta>>

orchVars == <<wf, entry, config, validation, runs, manual, pre, prev, poll,
                   probe, meta>>
rbVars == <<rbOps, rbAll, rbManual, rbResult, rbInv>>

\* two boot-disk set-ups: the disk under GCE's default device name, deleted
\* with the VM, on a VM that has metadata of its own; and the disk under its
\* own name, kept, on a VM without metadata
BootDisk(ad, dev) ==
    [source |-> OrigDisk, boot |-> TRUE, autoDelete |-> ad, deviceName |-> dev,
     mode |-> "READ_WRITE"]

InitialClouds ==
    { [status |-> st, attached |-> <<p.disk>>, items |-> p.items,
       fingerprint |-> 0, disks |-> {OrigDisk}, snapshots |-> {}] :
      st \in {"RUNNING", "TERMINATED", "STOPPING"},
      p \in { [disk |-> BootDisk(TRUE, PersistentDisk0), items |-> <<UserItem>>],
              [disk |-> BootDisk(FALSE, OrigDisk), items |-> <<>>] } }

\* dry_run and auto_rollback carry the defaults of the dataclasses
NoConfig ==
    [create_snapshot |-> FALSE, require_snapshot |-> FALSE,
     delete_rescue_disk |-> FALSE, dry_run |-> FALSE, auto_rollback |-> TRUE]

\* require_snapshot is read only when create_snapshot is set
RescueConfigs ==
    { [NoConfig EXCEPT !.create_snapshot = cs, !.require_snapshot = rs] :
      cs \in BOOLEAN, rs \in BOOLEAN } \
    { [NoConfig EXCEPT !.require_snapshot = TRUE] }

RestoreConfigs ==
    { [NoConfig EXCEPT !.delete_rescue_disk = dl] : dl \in BOOLEAN }

\* cli.args_to_rescue_config / args_to_restore_config: --dry-run sets
\* dry_run, --no-rollback clears auto_rollback
BehaviorFlags ==
    { [dry_run |-> TRUE, auto_rollback |-> TRUE],
      [dry_run |-> FALSE, auto_rollback |-> FALSE] }

WithFlags(cfg, f) ==
    [cfg EXCEPT !.dry_run = f.dry_run, !.auto_rollback = f.auto_rollback]

NoRun == [wf |-> "none", pre |-> [status |-> "None"]]

\* no polling operation is being followed
NoPoll == [phase |-> "idle"]

\* no validator is being followed
NoProbe == [phase |-> "idle"]
NoMeta == [phase |-> "idle", clean_metadata |-> <<>>,
           original_metadata |-> [fingerprint |-> 0, items |-> <<>>],
           writes |-> 0]

Init ==
    /\ cloud \in InitialClouds
    /\ wf = "none" /\ entry = "main" /\ config = NoConfig
    /\ pc = "done"
    /\ validation = <<>>
    /\ tracker = <<>>
    /\ operations_map = EmptyMap
    /\ info = NoInfo
    /\ result = "None"
    /\ rbOps = <<>> /\ rbAll = TRUE /\ rbManual = FALSE
    /\ rbResult = "None" /\ rbInv = 0
    /\ execLog = <<>> /\ compLog = <<>> /\ calls = <<>>
    /\ runs = 0 /\ faults = 0 /\ manual = 0
    /\ pre = [status |-> "None"]
    /\ prev = NoRun
    /\ poll = NoPoll
    /\ probe = NoProbe /\ meta = NoMeta

\* an injected error or timeout is charged to the fault budget
Charge(o) ==
    /\ o # "ok" => faults < MaxFaults
    /\ faults' = faults + (IF o = "ok" THEN 0 ELSE 1)

\* ---------------------------------------------------------------- callers
\* A caller constructs an orchestrator: StateTracker() is empty, the
\* operations_map is {} and no disk is known yet.  The first workflow is
\* either one; a second one is the restore that follows a rescue which
\* returned True and was not rolled back by hand.
NewRun(w, cfg, e) ==
    /\ pc = "done"
    /\ \/ wf = "none"
       \/ wf = "rescue" /\ w = "restore" /\ result = "True" /\ manual = 0
    /\ wf' = w /\ config' = cfg /\ entry' = e
    /\ pc' = "created"
    /\ validation' = <<>>
    /\ tracker' = <<>>
    /\ operations_map' = EmptyMap
    /\ info' = NoInfo
    /\ result' = "None"
    /\ rbOps' = <<>> /\ rbAll' = TRUE /\ rbManual' = FALSE
    /\ rbResult' = "None" /\ rbInv' = 0
    /\ execLog' = <<>> /\ compLog' = <<>> /\ calls' = <<>>
    /\ runs' = runs + 1
    /\ manual' = 0
    /\ pre' = cloud
    /\ prev' = [wf |-> wf, pre |-> pre]
    /\ UNCHANGED <<cloud, faults, poll,
                   probe, meta>>

\* main calls orchestrator.validate(): ValidationRunner.run_all runs the
\* three validators and collects every result; main stops when it returns
\* False.  A direct user of the class calls execute() without it.
Validate(cred, iam) ==
    /\ pc = "created" /\ entry = "main"
    /\ validation = <<>>
    /\ faults + (IF cred THEN 0 ELSE 1) + (IF iam THEN 0 ELSE 1) <= MaxFaults
    /\ faults' = faults + (IF cred THEN 0 ELSE 1) + (IF iam THEN 0 ELSE 1)
    /\ LET state == IF wf = "rescue" THEN VMStateValidator(cloud)
                    ELSE VMRestoreStateValidator(cloud)
           results == run_all(<<ValidationResult("Credentials & Authentication", cred),
                                ValidationResult("IAM Permissions", iam),
                                ValidationResult(IF wf = "rescue" THEN "VM State"
                                                 ELSE "VM Restore State", state)>>)
       IN  /\ validation' = results
           /\ IF ~MainProceeds(all_passed(results))
              THEN pc' = "done" /\ result' = "False"
              ELSE UNCHANGED <<pc, result>>
    /\ UNCHANGED <<cloud, wf, entry, config, tracker, operations_map, info,
                   rbVars, execLog, compLog, calls, runs, manual, pre, prev, poll,
                   probe, meta>>

\* who may call execute(): main after a validate() that returned True, a
\* direct user of the class at any time
MayExecute ==
    /\ pc = "created"
    /\ entry = "main" => (validation # <<>> /\ MainProceeds(all_passed(validation)))

\* -------------------------------------------------------- rollback control
\* _rollback(): RollbackHandler.rollback(state_tracker, operations_map)
StartRollback(operations) ==
    /\ pc' = "rollback"
    /\ rbOps' = get_rollback_operations(operations)
    /\ rbAll' = TRUE
    /\ rbManual' = FALSE
    /\ rbInv' = rbInv + 1
    /\ UNCHANGED <<rbResult, result>>

Advance(next) ==
    /\ pc' = next
    /\ result' = IF next = "done" THEN "True" ELSE result
    /\ UNCHANGED rbVars

\* the record of one Operation.execute() call and of what it returned
Executed(step, class, res) ==
    [step |-> step, op |-> class, success |-> res.success,
     data |-> res.rollback_data]

\* a step whose result is recorded but not looked at
Step_forward(operation_name, class, out, next) ==
    /\ tracker' = add_operation(tracker, operation_name, out.result)
    /\ execLog' = Append(execLog, Executed(operation_name, class, out.result))
    /\ cloud' = out.cloud
    /\ calls' = calls \o out.calls
    /\ Advance(next)
    /\ UNCHANGED <<orchVars, operations_map, info, compLog>>

\* one step of execute(): the operation's execute, add_operation, and the
\* `if not result.success` branch
Step(operation_name, class, out, next) ==
    /\ tracker' = add_operation(tracker, operation_name, out.result)
    /\ execLog' = Append(execLog, Executed(operation_name, class, out.result))
    /\ cloud' = out.cloud
    /\ calls' = calls \o out.calls
    /\ IF out.result.success THEN Advance(next) ELSE StartRollback(tracker')
    /\ UNCHANGED <<orchVars, operations_map, info, compLog>>

\* an exception that ends execute() without a rollback
Unexpected_unhandled ==
    /\ pc' = "done" /\ result' = "False"
    /\ UNCHANGED <<cloud, tracker, execLog, calls, orchVars, info, compLog, rbVars>>

\* `except Exception`: _rollback() and return False, no tracker entry
Unexpected ==
    /\ StartRollback(tracker)
    /\ UNCHANGED <<cloud, tracker, execLog, calls, orchVars, info, compLog>>

\* ------------------------------------------------- RescueOrchestrator.execute
\* disk discovery and the operations_map; the instances().get of the
\* discovery can raise
RescueBegin(o) ==
    /\ wf = "rescue" /\ MayExecute
    /\ o \in CallOutcomes /\ Charge(o)
    /\ IF o = "ok"
       THEN /\ info' = [get_original_disk_info(cloud, info) EXCEPT
                           !.rescue_disk_name = RescueDiskName(runs)]
            /\ operations_map' = RescueOperationsMap
            /\ pc' = IF config.create_snapshot THEN "Create Snapshot" ELSE "Stop VM"
            /\ UNCHANGED <<cloud, tracker, execLog, calls, orchVars, compLog,
                           rbVars, result>>
       ELSE /\ Unexpected
            /\ UNCHANGED operations_map

\* step 0: a failed snapshot aborts only when require_snapshot is set
\* a snapshot failure that is always tolerated
SnapshotAborts_never(res, cfg) == FALSE

\* a snapshot failure that is never tolerated
SnapshotAborts_always(res, cfg) == ~res.success

SnapshotAborts(res, cfg) == ~res.success /\ cfg.require_snapshot

RescueCreateSnapshot(o) ==
    /\ wf = "rescue" /\ pc = "Create Snapshot"
    /\ o \in SnapshotOutcomes /\ Charge(o)
    /\ LET out == CreateSnapshotOperation_execute(cloud, info.original_disk_name,
                                                  runs, o)
       IN  /\ tracker' = add_operation(tracker, "Create Snapshot", out.result)
           /\ execLog' = Append(execLog, Executed("Create Snapshot", "CreateSnapshotOperation", out.result))
           /\ cloud' = out.cloud
           /\ calls' = calls \o out.calls
           /\ IF SnapshotAborts(out.result, config)
              THEN pc' = "done" /\ result' = "False"
              ELSE pc' = "Stop VM" /\ UNCHANGED result
    /\ UNCHANGED <<orchVars, operations_map, info, compLog, rbVars>>

RescueStopVM(o) ==
    /\ wf = "rescue" /\ pc = "Stop VM"
    /\ o \in StopVMOutcomes(cloud) /\ Charge(o)
    /\ Step("Stop VM", "StopVMOperation",
            StopVMOperation_execute(cloud, o), "Create Rescue Disk")

RescueCreateDisk(o) ==
    /\ wf = "rescue" /\ pc = "Create Rescue Disk"
    /\ o \in Outcomes /\ Charge(o)
    /\ Step("Create Rescue Disk", "CreateDiskOperation",
            CreateDiskOperation_execute(cloud, info.rescue_disk_name, o),
            "Detach Boot Disk")

RescueDetachBoot(o) ==
    /\ wf = "rescue" /\ pc = "Detach Boot Disk"
    /\ o \in CallOutcomes /\ Charge(o)
    /\ Step("Detach Boot Disk", "DetachDiskOperation",
            DetachDiskOperation_execute(cloud, info.original_device_name, o),
            "Attach Rescue Disk")

RescueAttachRescue(o) ==
    /\ wf = "rescue" /\ pc = "Attach Rescue Disk"
    /\ o \in CallOutcomes /\ Charge(o)
    /\ Step("Attach Rescue Disk", "AttachDiskOperation",
            AttachDiskOperation_execute(cloud, info.rescue_disk_name, TRUE, o),
            "Set Metadata")

\* step 5; "raise" is _generate_startup_script failing to read its template
RescueSetMetadata(o) ==
    /\ wf = "rescue" /\ pc = "Set Metadata"
    /\ o \in CallOutcomes \cup {"raise"} /\ Charge(o)
    /\ IF o = "raise"
       THEN Unexpected /\ UNCHANGED operations_map
       ELSE Step("Set Metadata", "SetMetadataOperation",
                 SetMetadataOperation_execute(cloud,
                     RescueMetadataItems(info.original_disk_name, runs), o),
                 "Start VM")

\* a Start VM step followed at once by the secondary attach
RescueStartVM_noSettle(o) ==
    /\ wf = "rescue" /\ pc = "Start VM"
    /\ o \in StartVMOutcomes(cloud) /\ Charge(o)
    /\ Step("Start VM", "StartVMOperation",
            StartVMOperation_execute(cloud, o), "Attach Original Disk")

RescueStartVM(o) ==
    /\ wf = "rescue" /\ pc = "Start VM"
    /\ o \in StartVMOutcomes(cloud) /\ Charge(o)
    /\ Step("Start VM", "StartVMOperation",
            StartVMOperation_execute(cloud, o), "Settle")

\* step 7 begins with `time.sleep(10)  # Wait for VM to fully boot`
RescueSettle ==
    /\ wf = "rescue" /\ pc = "Settle"
    /\ pc' = "Attach Original Disk"
    /\ UNCHANGED <<cloud, tracker, operations_map, info, result, rbVars, execLog,
                   compLog, calls, faults, orchVars>>

RescueAttachOriginal(o) ==
    /\ wf = "rescue" /\ pc = "Attach Original Disk"
    /\ o \in CallOutcomes /\ Charge(o)
    /\ Step("Attach Original Disk", "AttachDiskOperation",
            AttachDiskOperation_execute(cloud, info.original_disk_name, FALSE, o),
            "done")

\* ------------------------------------------------ RestoreOrchestrator.execute
RestoreBegin(o) ==
    /\ wf = "restore" /\ MayExecute
    /\ o \in CallOutcomes /\ Charge(o)
    /\ IF o = "ok"
       THEN /\ info' = get_disk_info(cloud, info)
            /\ operations_map' = RestoreOperationsMap
            /\ pc' = "Stop VM"
            /\ UNCHANGED <<cloud, tracker, execLog, calls, orchVars, compLog,
                           rbVars, result>>
       ELSE /\ Unexpected
            /\ UNCHANGED operations_map

RestoreStopVM(o) ==
    /\ wf = "restore" /\ pc = "Stop VM"
    /\ o \in StopVMOutcomes(cloud) /\ Charge(o)
    /\ Step("Stop VM", "StopVMOperation",
            StopVMOperation_execute(cloud, o), "Detach Rescue Disk")

\* a reverse workflow that leaves the secondary attachment in place
RestoreDetachRescue_only(o) ==
    /\ wf = "restore" /\ pc = "Detach Rescue Disk"
    /\ o \in CallOutcomes /\ Charge(o)
    /\ Step("Detach Rescue Disk", "DetachDiskOperation",
            DetachDiskOperation_execute(cloud, info.rescue_device_name, o),
            "Attach Original Disk")

RestoreDetachRescue(o) ==
    /\ wf = "restore" /\ pc = "Detach Rescue Disk"
    /\ o \in CallOutcomes /\ Charge(o)
    /\ Step("Detach Rescue Disk", "DetachDiskOperation",
            DetachDiskOperation_execute(cloud, info.rescue_device_name, o),
            "Detach Original Disk")

RestoreDetachOriginal(o) ==
    /\ wf = "restore" /\ pc = "Detach Original Disk"
    /\ o \in CallOutcomes /\ Charge(o)
    /\ Step("Detach Original Disk", "DetachDiskOperation",
            DetachDiskOperation_execute(cloud, info.original_device_name, o),
            "Attach Original Disk")

RestoreAttachOriginal(o) ==
    /\ wf = "restore" /\ pc = "Attach Original Disk"
    /\ o \in CallOutcomes /\ Charge(o)
    /\ Step("Attach Original Disk", "AttachDiskOperation",
            AttachDiskOperation_execute(cloud, info.original_disk_name, TRUE, o),
            "Set Metadata")

\* step 5; "raise" is the instances().get of _get_clean_metadata raising
RestoreSetMetadata(o) ==
    /\ wf = "restore" /\ pc = "Set Metadata"
    /\ o \in CallOutcomes \cup {"raise"} /\ Charge(o)
    /\ IF o = "raise"
       THEN Unexpected /\ UNCHANGED operations_map
       ELSE Step("Set Metadata", "SetMetadataOperation",
                 SetMetadataOperation_execute(cloud, get_clean_metadata(cloud), o),
                 "Start VM")

\* a Start VM step that goes on to the delete step whatever the config says
RestoreStartVM_alwaysDelete(o) ==
    /\ wf = "restore" /\ pc = "Start VM"
    /\ o \in StartVMOutcomes(cloud) /\ Charge(o)
    /\ Step("Start VM", "StartVMOperation", StartVMOperation_execute(cloud, o),
            "Delete Rescue Disk")

RestoreStartVM(o) ==
    /\ wf = "restore" /\ pc = "Start VM"
    /\ o \in StartVMOutcomes(cloud) /\ Charge(o)
    /\ Step("Start VM", "StartVMOperation", StartVMOperation_execute(cloud, o),
            IF config.delete_rescue_disk THEN "Delete Rescue Disk" ELSE "done")

\* a delete step handled like the six steps before it
RestoreDeleteDisk_compensated(o) ==
    /\ wf = "restore" /\ pc = "Delete Rescue Disk"
    /\ o \in CallOutcomes /\ Charge(o)
    /\ Step("Delete Rescue Disk", "DeleteDiskOperation",
            DeleteDiskOperation_execute(cloud, info.rescue_disk_name, o), "done")

\* step 7: the result is not added to the tracker and not acted upon
RestoreDeleteDisk(o) ==
    /\ wf = "restore" /\ pc = "Delete Rescue Disk"
    /\ o \in CallOutcomes /\ Charge(o)
    /\ LET out == DeleteDiskOperation_execute(cloud, info.rescue_disk_name, o)
       IN  /\ execLog' = Append(execLog, Executed("Delete Rescue Disk", "DeleteDiskOperation", out.result))
           /\ cloud' = out.cloud
           /\ calls' = calls \o out.calls
    /\ pc' = "done" /\ result' = "True"
    /\ UNCHANGED <<tracker, orchVars, operations_map, info, compLog, rbVars>>

\* ------------------------------------------------- RollbackHandler.rollback
\* a loop that stops at the first compensation that did not succeed
RemainingAfter_failfast(ops, all_succeeded) ==
    IF all_succeeded THEN Tail(ops) ELSE <<>>

\* the loop goes on to the next step whatever all_succeeded has become
RemainingAfter(ops, all_succeeded) == Tail(ops)

\* a missing entry that is passed over without a mark
AfterMissing_skipped(all_succeeded) == all_succeeded

\* `if not operation`: "[X] Cannot rollback ...: operation not found",
\* all_succeeded = False, continue
AfterMissing(all_succeeded) == FALSE

\* a step without rollback data counted as a failed compensation
AfterSkipped_failed(all_succeeded) == FALSE

\* `if not op_state.rollback_data: continue` leaves all_succeeded as it is
AfterSkipped(all_succeeded) == all_succeeded

\* one iteration of `for op_state in rollback_ops`
RollbackNext(o) ==
    /\ pc = "rollback" /\ rbOps # <<>>
    /\ LET op_state == Head(rbOps)
           operation == IF op_state.operation_name \in DOMAIN operations_map
                        THEN operations_map[op_state.operation_name] ELSE "None"
       IN  IF operation = "None"
           THEN /\ o = "ok" /\ rbAll' = AfterMissing(rbAll)
                /\ UNCHANGED <<cloud, compLog, calls, faults>>
           ELSE IF op_state.rollback_data.kind = "None"
           THEN /\ o = "ok" /\ rbAll' = AfterSkipped(rbAll)
                /\ UNCHANGED <<cloud, compLog, calls, faults>>
           ELSE /\ o \in CompensateOutcomes(operation, op_state.rollback_data)
                /\ Charge(o)
                /\ LET r == Compensate(operation, cloud, op_state.rollback_data, o)
                   IN  /\ cloud' = r.cloud
                       /\ calls' = calls \o r.calls
                       /\ compLog' = Append(compLog,
                              [inv |-> rbInv, step |-> op_state.operation_name,
                               op |-> operation,
                               data |-> op_state.rollback_data, ok |-> r.ok])
                       /\ rbAll' = (rbAll /\ r.ok)
    /\ rbOps' = RemainingAfter(rbOps, rbAll')
    /\ UNCHANGED <<pc, orchVars, tracker, operations_map, info, result, execLog,
                   rbManual, rbResult, rbInv>>

\* `return all_succeeded` (and the early `return True` on an empty list);
\* _rollback() drops the value and execute() returns False
\* a handler that never comes to its return statement
RollbackReturn_never ==
    /\ pc = "rollback" /\ rbOps = <<>>
    /\ UNCHANGED vars

RollbackReturn ==
    /\ pc = "rollback" /\ rbOps = <<>>
    /\ rbResult' = IF rbAll THEN "True" ELSE "False"
    /\ pc' = "done"
    /\ result' = IF rbManual THEN result ELSE "False"
    /\ UNCHANGED <<cloud, orchVars, tracker, operations_map, info, rbOps, rbAll,
                   rbManual, rbInv, execLog, compLog, calls, faults>>

\* the public rollback() of either orchestrator, called on a finished run
ManualRollback ==
    /\ pc = "done" /\ wf # "none" /\ entry = "direct"
    /\ manual < MaxManual
    /\ manual' = manual + 1
    /\ pc' = "rollback"
    /\ rbOps' = get_rollback_operations(tracker)
    /\ rbAll' = TRUE
    /\ rbManual' = TRUE
    /\ rbInv' = rbInv + 1
    /\ UNCHANGED <<cloud, wf, entry, config, validation, tracker, operations_map,
                   info, result, rbResult, execLog, compLog, calls, runs, faults,
                   pre, prev, poll,
                   probe, meta>>

\* ------------------------------------------------------------- environment
\* a VM that is stopping or starting gets there
EnvSettle ==
    /\ cloud.status \in {"STOPPING", "STARTING"}
    /\ cloud' = [cloud EXCEPT !.status = IF @ = "STOPPING" THEN "TERMINATED"
                                         ELSE "RUNNING"]
    /\ UNCHANGED <<wf, entry, config, pc, validation, tracker, operations_map,
                   info, result, rbVars, execLog, compLog, calls, runs, faults,
                   manual, pre, prev, poll,
                   probe, meta>>

Next ==
    \/ \E cfg \in RescueConfigs, e \in {"main", "direct"} : NewRun("rescue", cfg, e)
    \/ \E cfg \in RestoreConfigs, e \in {"main", "direct"} : NewRun("restore", cfg, e)
    \/ \E cred \in BOOLEAN, iam \in BOOLEAN : Validate(cred, iam)
    \/ \E o \in CallOutcomes : RescueBegin(o)
    \/ \E o \in SnapshotOutcomes : RescueCreateSnapshot(o)
    \/ \E o \in Outcomes : RescueStopVM(o)
    \/ \E o \in Outcomes : RescueCreateDisk(o)
    \/ \E o \in CallOutcomes : RescueDetachBoot(o)
    \/ \E o \in CallOutcomes : RescueAttachRescue(o)
    \/ \E o \in CallOutcomes \cup {"raise"} : RescueSetMetadata(o)
    \/ \E o \in Outcomes : RescueStartVM(o)
    \/ RescueSettle
    \/ \E o \in CallOutcomes : RescueAttachOriginal(o)
    \/ \E o \in CallOutcomes : RestoreBegin(o)
    \/ \E o \in Outcomes : RestoreStopVM(o)
    \/ \E o \in CallOutcomes : RestoreDetachRescue(o)
    \/ \E o \in CallOutcomes : RestoreDetachOriginal(o)
    \/ \E o \in CallOutcomes : RestoreAttachOriginal(o)
    \/ \E o \in CallOutcomes \cup {"raise"} : RestoreSetMetadata(o)
    \/ \E o \in Outcomes : RestoreStartVM(o)
    \/ \E o \in CallOutcomes : RestoreDeleteDisk(o)
    \/ \E o \in Outcomes : RollbackNext(o)
    \/ RollbackReturn
    \/ ManualRollback
    \/ EnvSettle

Spec == Init /\ [][Next]_vars

\* the workflows run with --dry-run or --no-rollback given
NextFlags ==
    \/ \E f \in BehaviorFlags, e \in {"main", "direct"} :
          NewRun("rescue", WithFlags([NoConfig EXCEPT !.create_snapshot = TRUE], f), e)
    \/ \E f \in BehaviorFlags, e \in {"main", "direct"} :
          NewRun("restore", WithFlags([NoConfig EXCEPT !.delete_rescue_disk = TRUE], f), e)
    \/ \E cred \in BOOLEAN, iam \in BOOLEAN : Validate(cred, iam)
    \/ \E o \in CallOutcomes : RescueBegin(o)
    \/ \E o \in SnapshotOutcomes : RescueCreateSnapshot(o)
    \/ \E o \in Outcomes : RescueStopVM(o)
    \/ \E o \in Outcomes : RescueCreateDisk(o)
    \/ \E o \in CallOutcomes : RescueDetachBoot(o)
    \/ \E o \in CallOutcomes : RescueAttachRescue(o)
    \/ \E o \in CallOutcomes \cup {"raise"} : RescueSetMetadata(o)
    \/ \E o \in Outcomes : RescueStartVM(o)
    \/ RescueSettle
    \/ \E o \in CallOutcomes : RescueAttachOriginal(o)
    \/ \E o \in CallOutcomes : RestoreBegin(o)
    \/ \E o \in Outcomes : RestoreStopVM(o)
    \/ \E o \in CallOutcomes : RestoreDetachRescue(o)
    \/ \E o \in CallOutcomes : RestoreDetachOriginal(o)
    \/ \E o \in CallOutcomes : RestoreAttachOriginal(o)
    \/ \E o \in CallOutcomes \cup {"raise"} : RestoreSetMetadata(o)
    \/ \E o \in Outcomes : RestoreStartVM(o)
    \/ \E o \in CallOutcomes : RestoreDeleteDisk(o)
    \/ \E o \in Outcomes : RollbackNext(o)
    \/ RollbackReturn
    \/ ManualRollback
    \/ EnvSettle

SpecFlags == Init /\ [][NextFlags]_vars


\* ------------------------------------------------ execute() run to its end
\* Either orchestrator used directly, with every client call returning and
\* every wait reaching its target or its timeout: a step of execute() or of
\* the rollback loop that can be taken is taken.
ExecuteSteps ==
    \/ \E o \in CallOutcomes : RescueBegin(o)
    \/ \E o \in SnapshotOutcomes : RescueCreateSnapshot(o)
    \/ \E o \in Outcomes : RescueStopVM(o)
    \/ \E o \in Outcomes : RescueCreateDisk(o)
    \/ \E o \in CallOutcomes : RescueDetachBoot(o)
    \/ \E o \in CallOutcomes : RescueAttachRescue(o)
    \/ \E o \in CallOutcomes \cup {"raise"} : RescueSetMetadata(o)
    \/ \E o \in Outcomes : RescueStartVM(o)
    \/ RescueSettle
    \/ \E o \in CallOutcomes : RescueAttachOriginal(o)
    \/ \E o \in CallOutcomes : RestoreBegin(o)
    \/ \E o \in Outcomes : RestoreStopVM(o)
    \/ \E o \in CallOutcomes : RestoreDetachRescue(o)
    \/ \E o \in CallOutcomes : RestoreDetachOriginal(o)
    \/ \E o \in CallOutcomes : RestoreAttachOriginal(o)
    \/ \E o \in CallOutcomes \cup {"raise"} : RestoreSetMetadata(o)
    \/ \E o \in Outcomes : RestoreStartVM(o)
    \/ \E o \in CallOutcomes : RestoreDeleteDisk(o)
    \/ \E o \in Outcomes : RollbackNext(o)
    \/ RollbackReturn

LiveNext ==
    \/ \E cfg \in RescueConfigs : NewRun("rescue", cfg, "direct")
    \/ \E cfg \in RestoreConfigs : NewRun("restore", cfg, "direct")
    \/ ExecuteSteps

SpecLive == Init /\ [][LiveNext]_vars /\ WF_vars(ExecuteSteps)

\* ------------------------------------- RollbackHandler.rollback on its own
\* rollback(state_tracker, operations_map) is public: the handler is also
\* followed on trackers and maps that no orchestrator builds, a map without
\* one of the tracked names among them.
PreExistingSnapshot == SnapshotName(OrigDisk, 0)

\* what add_operation can have been given: results of execute() calls, a
\* snapshot record that is not flagged created_by_operation, and a
\* successful Stop VM added without rollback data
HandlerEntries(c) ==
    { OperationState("Create Snapshot",
                     CreateSnapshotOperation_execute(c, OrigDisk, 1, o).result) :
      o \in SnapshotOutcomes }
    \cup
    { OperationState("Create Snapshot",
                     Ok([kind |-> "snapshot", snapshot_name |-> PreExistingSnapshot,
                         disk_name |-> OrigDisk, created_by_operation |-> FALSE])),
      OperationState("Stop VM", Ok([kind |-> "status", original_status |-> "RUNNING"])),
      OperationState("Stop VM", Ok([kind |-> "status", original_status |-> "TERMINATED"])),
      OperationState("Start VM", Ok([kind |-> "status", original_status |-> "TERMINATED"])),
      OperationState("Start VM", Ok([kind |-> "status", original_status |-> "RUNNING"])),
      OperationState("Create Rescue Disk",
                     Ok([kind |-> "disk", disk_name |-> RescueDiskName(1)])),
      OperationState("Delete Rescue Disk", Ok(NoData)),
      OperationState("Stop VM", Ok(NoData)) }

HandlerTrackers(c) ==
    UNION { [1..n -> HandlerEntries(c)] : n \in 0..MaxTracked }

HandlerInit ==
    /\ cloud \in
         { [status |-> st, attached |-> <<BootDisk(FALSE, OrigDisk)>>, items |-> <<>>,
            fingerprint |-> 0, disks |-> {OrigDisk, RescueDiskName(1)},
            snapshots |-> {PreExistingSnapshot} \cup sn] :
           st \in {"RUNNING", "TERMINATED"},
           sn \in {{}, {SnapshotName(OrigDisk, 1)}} }
    /\ pre = cloud
    /\ tracker \in HandlerTrackers(cloud)
    /\ operations_map \in
         { [n \in (DOMAIN RescueOperationsMap) \ gone |-> RescueOperationsMap[n]] :
           gone \in SUBSET {"Stop VM", "Create Rescue Disk"} }
    /\ rbOps = get_rollback_operations(tracker)
    /\ rbAll = TRUE /\ rbManual = TRUE /\ rbResult = "None" /\ rbInv = 1
    /\ pc = "rollback"
    /\ wf = "none" /\ entry = "direct" /\ config = NoConfig
    /\ validation = <<>> /\ info = NoInfo /\ result = "None"
    /\ execLog = <<>> /\ compLog = <<>> /\ calls = <<>>
    /\ runs = 1 /\ faults = 0 /\ manual = 1
    /\ prev = NoRun /\ poll = NoPoll /\ probe = NoProbe /\ meta = NoMeta

HandlerNext ==
    \/ \E o \in Outcomes : RollbackNext(o)
    \/ RollbackReturn

SpecHandler == HandlerInit /\ [][HandlerNext]_vars

\* ------------------------------------------ polling operations, step by step
\* execute() of the four operations that wait for a status, followed one
\* client call, one clock reading and one sleep at a time.  poll.now is the
\* time since start_time; a status query answers with any status.
PollInterval == 5

PollingOperations ==
    {"StopVMOperation", "StartVMOperation", "CreateDiskOperation",
     "CreateSnapshotOperation"}

PollTimeouts == {0, 4, 10}

TargetStatus(op) ==
    CASE op = "StopVMOperation" -> "TERMINATED"
      [] op = "StartVMOperation" -> "RUNNING"
      [] OTHER -> "READY"

\* what a status query can answer; "absent" is a snapshots().get that raised
PolledStatuses(op) ==
    CASE op = "StopVMOperation" -> {"RUNNING", "STOPPING", "TERMINATED"}
      [] op = "StartVMOperation" -> {"TERMINATED", "STAGING", "RUNNING"}
      [] op = "CreateDiskOperation" -> {"CREATING", "READY"}
      [] OTHER -> {"absent", "CREATING", "READY", "FAILED"}

TimeoutMessage(op, timeout) ==
    [text |-> CASE op = "StopVMOperation" -> "Timeout waiting for VM to stop"
                [] op = "StartVMOperation" -> "Timeout waiting for VM to start"
                [] op = "CreateDiskOperation" -> "Timeout waiting for disk creation"
                [] OTHER -> "Snapshot creation timeout after",
     seconds |-> timeout]

\* a message that names no number of seconds
Message(text) == [text |-> text, seconds |-> 0]

PollResult(success, message, rollback_data) ==
    [success |-> success, message |-> message, rollback_data |-> rollback_data]

\* execute() has not returned

\* a clock check that never gives up
TimedOut_never(now, timeout) == FALSE

\* `if time.time() - start_time > timeout`
TimedOut(now, timeout) == now > timeout

\* a record of the status the last poll returned
RunStateRecord_polled(original_status, polled) ==
    [kind |-> "status", original_status |-> polled]

\* rollback_data of StopVMOperation / StartVMOperation: the status read
\* before the request
RunStateRecord(original_status, polled) ==
    [kind |-> "status", original_status |-> original_status]

PollInputs ==
    { [op |-> op, timeout |-> t, phase |-> "begin", now |-> 0, first |-> "None",
       seen |-> <<>>, requests |-> 0, result |-> PollResult(FALSE, Message("None"), NoData)] :
      op \in PollingOperations, t \in PollTimeouts }

Returned(res) == [poll EXCEPT !.phase = "returned", !.result = res]

\* a polling operation touches the orchestrator's state nowhere
OrchestratorIdle ==
    UNCHANGED <<cloud, wf, entry, config, pc, validation, tracker,
                operations_map, info, result, rbVars, execLog, compLog, calls,
                runs, faults, manual, pre, prev, probe, meta>>

\* an execute() that issues its request whatever status it read
UnexpectedState_requested(s) ==
    [poll EXCEPT !.first = s, !.requests = 1, !.phase = "check"]

\* the `else` branch of execute(): the status is neither the one to leave
\* nor the one to reach
UnexpectedState(s) ==
    [Returned(PollResult(FALSE, Message("unexpected state"), NoData))
       EXCEPT !.first = s]

\* the part of execute() before the wait: the status read and the request
PollBegin(s) ==
    /\ poll.phase = "begin"
    /\ OrchestratorIdle
    /\ IF poll.op \in {"StopVMOperation", "StartVMOperation"}
       THEN /\ s \in {"RUNNING", "TERMINATED", "STOPPING", "SUSPENDED"}
            /\ LET from == IF poll.op = "StopVMOperation" THEN "RUNNING"
                           ELSE "TERMINATED"
               IN  poll' =
                     IF s = from
                     THEN [poll EXCEPT !.first = s, !.requests = 1, !.phase = "check"]
                     ELSE IF s = TargetStatus(poll.op)
                     THEN [Returned(PollResult(TRUE, Message("already there"),
                                               RunStateRecord(s, s)))
                             EXCEPT !.first = s]
                     ELSE UnexpectedState(s)
       ELSE /\ s = "None"
            /\ poll' = [poll EXCEPT !.requests = 1, !.phase = "check"]

\* top of `while True`: the timeout check
PollCheck ==
    /\ poll.phase = "check"
    /\ OrchestratorIdle
    /\ poll' = IF TimedOut(poll.now, poll.timeout)
               THEN Returned(PollResult(FALSE, TimeoutMessage(poll.op, poll.timeout),
                                        NoData))
               ELSE [poll EXCEPT !.phase = "query"]

\* check_func() and the comparison with the target status
PollQuery(s) ==
    /\ poll.phase = "query"
    /\ OrchestratorIdle
    /\ s \in PolledStatuses(poll.op)
    /\ LET p == [poll EXCEPT !.seen = IF Len(@) < MaxSeen THEN Append(@, s) ELSE @]
       IN  poll' =
             IF s = TargetStatus(poll.op)
             THEN [p EXCEPT !.phase = "returned",
                            !.result = PollResult(TRUE, Message("done"),
                                           IF poll.op \in {"StopVMOperation", "StartVMOperation"}
                                           THEN RunStateRecord(poll.first, s)
                                           ELSE [kind |-> "created"])]
             ELSE IF poll.op = "CreateSnapshotOperation" /\ s = "FAILED"
             THEN [p EXCEPT !.phase = "returned",
                            !.result = PollResult(FALSE, Message("Snapshot creation failed"),
                                                  NoData)]
             ELSE [p EXCEPT !.phase = "sleep"]

\* time.sleep(5): the clock has advanced by the interval or more
PollSleep(late) ==
    /\ poll.phase = "sleep"
    /\ OrchestratorIdle
    /\ poll.now < MaxClock
    /\ poll' = [poll EXCEPT !.phase = "check",
                            !.now = IF @ + PollInterval + late < MaxClock
                                    THEN @ + PollInterval + late ELSE MaxClock]

PollIdle ==
    /\ cloud = CHOOSE c \in InitialClouds : c.status = "RUNNING" /\ c.items = <<>>
    /\ wf = "none" /\ entry = "main" /\ config = NoConfig
    /\ pc = "done" /\ validation = <<>> /\ tracker = <<>>
    /\ operations_map = EmptyMap /\ info = NoInfo /\ result = "None"
    /\ rbOps = <<>> /\ rbAll = TRUE /\ rbManual = FALSE
    /\ rbResult = "None" /\ rbInv = 0
    /\ execLog = <<>> /\ compLog = <<>> /\ calls = <<>>
    /\ runs = 0 /\ faults = 0 /\ manual = 0
    /\ pre = [status |-> "None"] /\ prev = NoRun

PollInit == PollIdle /\ poll \in PollInputs /\ probe = NoProbe /\ meta = NoMeta

PollNext ==
    \/ \E s \in {"None", "RUNNING", "TERMINATED", "STOPPING", "SUSPENDED"} :
          PollBegin(s)
    \/ PollCheck
    \/ \E s \in UNION {PolledStatuses(op) : op \in PollingOperations} : PollQuery(s)
    \/ \E late \in {0, 1} : PollSleep(late)

\* time advances and every query returns: a step that can be taken is taken
SpecPoll == PollInit /\ [][PollNext]_vars /\ WF_vars(PollNext)

\* --------------------------------------- restore of a VM found in rescue mode
\* The reverse workflow on VMs that an earlier rescue left in rescue mode and
\* whose metadata has been edited since: the user's item before, between or
\* after the items the rescue wrote.
RescuedClouds ==
    { [status |-> st,
       attached |-> <<AttachBody(RescueDiskName(0), TRUE), AttachBody(OrigDisk, FALSE)>>,
       items |-> it, fingerprint |-> 1,
       disks |-> {OrigDisk, RescueDiskName(0)}, snapshots |-> {}] :
      st \in {"RUNNING", "TERMINATED"},
      it \in (LET r == RescueMetadataItems(OrigDisk, 0)
              IN  { r, <<UserItem>> \o r, r \o <<UserItem>>,
                    <<r[1], UserItem, r[2], r[3]>> }) }

\* main.restore_vm has constructed the RestoreOrchestrator
RescuedInit ==
    /\ cloud \in RescuedClouds
    /\ wf = "restore" /\ entry = "main" /\ config \in RestoreConfigs
    /\ pc = "created"
    /\ validation = <<>> /\ tracker = <<>>
    /\ operations_map = EmptyMap /\ info = NoInfo /\ result = "None"
    /\ rbOps = <<>> /\ rbAll = TRUE /\ rbManual = FALSE
    /\ rbResult = "None" /\ rbInv = 0
    /\ execLog = <<>> /\ compLog = <<>> /\ calls = <<>>
    /\ runs = 1 /\ faults = 0 /\ manual = 0
    /\ pre = cloud /\ prev = NoRun
    /\ poll = NoPoll /\ probe = NoProbe /\ meta = NoMeta

RescuedNext ==
    \/ \E cred \in BOOLEAN, iam \in BOOLEAN : Validate(cred, iam)
    \/ \E o \in CallOutcomes : RestoreBegin(o)
    \/ \E o \in Outcomes : RestoreStopVM(o)
    \/ \E o \in CallOutcomes : RestoreDetachRescue(o)
    \/ \E o \in CallOutcomes : RestoreDetachOriginal(o)
    \/ \E o \in CallOutcomes : RestoreAttachOriginal(o)
    \/ \E o \in CallOutcomes \cup {"raise"} : RestoreSetMetadata(o)
    \/ \E o \in Outcomes : RestoreStartVM(o)
    \/ \E o \in CallOutcomes : RestoreDeleteDisk(o)
    \/ \E o \in Outcomes : RollbackNext(o)
    \/ RollbackReturn

SpecRescued == RescuedInit /\ [][RescuedNext]_vars

\* ------------------------------ restore of a VM edited while in rescue mode
\* main.restore_vm on VMs in rescue mode that were changed by hand since the
\* rescue: the rescue-original-disk item removed, the original disk
\* detached, a data disk attached.
DataDisk == Nm("data-disk", 0)

EditedClouds ==
    { [status |-> st,
       attached |-> <<AttachBody(RescueDiskName(0), TRUE)>> \o att,
       items |-> it, fingerprint |-> 2,
       disks |-> {OrigDisk, DataDisk, RescueDiskName(0)}, snapshots |-> {}] :
      st \in {"RUNNING", "TERMINATED"},
      it \in (LET r == RescueMetadataItems(OrigDisk, 0)
              IN  { r, <<r[1], r[2]>>, <<UserItem, r[1], r[2]>> }),
      att \in { <<AttachBody(OrigDisk, FALSE)>>,
                <<AttachBody(DataDisk, FALSE)>>,
                <<AttachBody(OrigDisk, FALSE), AttachBody(DataDisk, FALSE)>> } }

EditedInit ==
    /\ cloud \in EditedClouds
    /\ wf = "restore" /\ entry = "main" /\ config \in RestoreConfigs
    /\ pc = "created"
    /\ validation = <<>> /\ tracker = <<>>
    /\ operations_map = EmptyMap /\ info = NoInfo /\ result = "None"
    /\ rbOps = <<>> /\ rbAll = TRUE /\ rbManual = FALSE
    /\ rbResult = "None" /\ rbInv = 0
    /\ execLog = <<>> /\ compLog = <<>> /\ calls = <<>>
    /\ runs = 1 /\ faults = 0 /\ manual = 0
    /\ pre = cloud /\ prev = NoRun
    /\ poll = NoPoll /\ probe = NoProbe /\ meta = NoMeta

SpecEdited == EditedInit /\ [][RescuedNext]_vars

\* ------------------------------- restore's metadata step and other writers
\* Step 5 of the reverse workflow taken call by call, on a VM whose metadata
\* other clients of the API may write: the instances().get of
\* _get_clean_metadata, the instances().get of SetMetadataOperation.execute,
\* and its instances().setMetadata.
OtherItem == [key |-> "owner", value |-> Nm("ops", 0)]

\* _get_clean_metadata: "raise" is its instances().get raising
ReadCleanMetadata(o) ==
    /\ wf = "restore" /\ pc = "Set Metadata" /\ meta.phase = "idle"
    /\ o \in {"ok", "raise"} /\ Charge(o)
    /\ IF o = "raise"
       THEN Unexpected /\ UNCHANGED operations_map
       ELSE /\ meta' = [meta EXCEPT !.phase = "clean",
                                    !.clean_metadata = get_clean_metadata(cloud)]
            /\ UNCHANGED <<cloud, wf, entry, config, pc, validation, tracker,
                           operations_map, info, result, rbVars, execLog,
                           compLog, calls, runs, manual, pre, prev, poll, probe>>

\* what step 5 does with the result of SetMetadataOperation.execute
MetadataStep(out) ==
    /\ tracker' = add_operation(tracker, "Set Metadata", out.result)
    /\ execLog' = Append(execLog, Executed("Set Metadata", "SetMetadataOperation",
                                           out.result))
    /\ cloud' = out.cloud
    /\ calls' = calls \o out.calls
    /\ IF out.result.success THEN Advance("Start VM") ELSE StartRollback(tracker')
    /\ meta' = [NoMeta EXCEPT !.writes = meta.writes]
    /\ UNCHANGED <<wf, entry, config, validation, runs, manual, pre, prev, poll,
                   probe, operations_map, info, compLog>>

\* execute(): the read of the VM's metadata and of its fingerprint
ReadMetadata(o) ==
    /\ wf = "restore" /\ pc = "Set Metadata" /\ meta.phase = "clean"
    /\ o \in CallOutcomes /\ Charge(o)
    /\ IF o = "ok"
       THEN /\ meta' = [meta EXCEPT !.phase = "read",
                          !.original_metadata = [fingerprint |-> cloud.fingerprint,
                                                 items |-> cloud.items]]
            /\ UNCHANGED <<cloud, wf, entry, config, pc, validation, tracker,
                           operations_map, info, result, rbVars, execLog,
                           compLog, calls, runs, manual, pre, prev, poll, probe>>
       ELSE MetadataStep(Out(Fail("exception"), cloud, <<>>))

\* execute(): the write of the items it was given under the fingerprint it read
WriteMetadata(o) ==
    /\ wf = "restore" /\ pc = "Set Metadata" /\ meta.phase = "read"
    /\ o \in CallOutcomes /\ Charge(o)
    /\ LET new_metadata == [fingerprint |-> meta.original_metadata.fingerprint,
                            items |-> meta.clean_metadata]
       IN  MetadataStep(
             IF SetMetadataAccepted(cloud, new_metadata, o)
             THEN Out(Ok([kind |-> "metadata",
                          original_metadata |-> meta.original_metadata]),
                      DoSetMetadata(cloud, new_metadata),
                      <<Call("instances.setMetadata", new_metadata, cloud)>>)
             ELSE Out(Fail("exception"), cloud, <<>>))

\* another client of the API adds an item to the VM's metadata
OtherWriter ==
    /\ meta.writes < MaxWrites
    /\ \A i \in 1..Len(cloud.items) : cloud.items[i].key # OtherItem.key
    /\ cloud' = DoSetMetadata(cloud, [fingerprint |-> cloud.fingerprint,
                                      items |-> Append(cloud.items, OtherItem)])
    /\ meta' = [meta EXCEPT !.writes = @ + 1]
    /\ UNCHANGED <<wf, entry, config, pc, validation, tracker, operations_map,
                   info, result, rbVars, execLog, compLog, calls, runs, faults,
                   manual, pre, prev, poll, probe>>

WritersNext ==
    \/ \E cred \in BOOLEAN, iam \in BOOLEAN : Validate(cred, iam)
    \/ \E o \in CallOutcomes : RestoreBegin(o)
    \/ \E o \in Outcomes : RestoreStopVM(o)
    \/ \E o \in CallOutcomes : RestoreDetachRescue(o)
    \/ \E o \in CallOutcomes : RestoreDetachOriginal(o)
    \/ \E o \in CallOutcomes : RestoreAttachOriginal(o)
    \/ \E o \in {"ok", "raise"} : ReadCleanMetadata(o)
    \/ \E o \in CallOutcomes : ReadMetadata(o)
    \/ \E o \in CallOutcomes : WriteMetadata(o)
    \/ \E o \in Outcomes : RestoreStartVM(o)
    \/ \E o \in CallOutcomes : RestoreDeleteDisk(o)
    \/ \E o \in Outcomes : RollbackNext(o)
    \/ RollbackReturn
    \/ OtherWriter

SpecWriters == RescuedInit /\ [][WritersNext]_vars

\* ------------------------------------------------ validators on their own
\* validate() of the two resource-state validators and of the permission
\* validator, each followed on what the API can answer.

\* the VMs instances().get can describe: any status, with or without the
\* rescue metadata and metadata of the user, with the disks of a VM before a
\* rescue, in rescue mode, and with one of the disks missing
ProbedVMs ==
    { [status |-> st, items |-> it, attached |-> att] :
      st \in {"RUNNING", "TERMINATED", "STOPPING", "STAGING", "PROVISIONING",
               "SUSPENDED"},
      it \in { <<>>, <<UserItem>>, RescueMetadataItems(OrigDisk, 1),
               <<UserItem>> \o RescueMetadataItems(OrigDisk, 1) },
      att \in { <<>>, <<BootDisk(FALSE, OrigDisk)>>,
                <<AttachBody(RescueDiskName(1), TRUE)>>,
                <<AttachBody(RescueDiskName(1), TRUE), AttachBody(OrigDisk, FALSE)>> } }

\* how the API call of a validator ends: an answer, HttpError 404, or
\* another error
ApiAnswers == {"ok", "404", "error"}

INSTANCE_PERMISSIONS ==
    << "compute.instances.get", "compute.instances.stop",
       "compute.instances.start", "compute.instances.attachDisk",
       "compute.instances.detachDisk", "compute.instances.setMetadata" >>

DISK_PERMISSIONS ==
    << "compute.disks.create", "compute.disks.delete", "compute.disks.get" >>

SNAPSHOT_PERMISSIONS ==
    << "compute.disks.createSnapshot", "compute.snapshots.create",
       "compute.snapshots.get", "compute.snapshots.delete" >>

\* every permission the validator declares as required
RequiredPermissions ==
    Range(INSTANCE_PERMISSIONS) \cup Range(DISK_PERMISSIONS)
        \cup Range(SNAPSHOT_PERMISSIONS)

\* the permissions the caller holds: all required ones but up to MaxMissing
HeldPermissions ==
    { RequiredPermissions \ m :
      m \in { x \in SUBSET RequiredPermissions : Cardinality(x) <= MaxMissing } }

\* instances().testIamPermissions: of the permissions asked about, those held
testIamPermissions(asked, held) == SelectSeq(asked, LAMBDA q : q \in held)

\* a validator's verdict with the `missing` list of its details
Verdict(validator_name, passed, missing) ==
    [result |-> ValidationResult(validator_name, passed), missing |-> missing]

\* VMStateValidator.validate around the instances().get call
VMStateValidator_validate(answer, vm) ==
    Verdict("VM State", answer = "ok" /\ VMStateValidator(vm), <<>>)

\* VMRestoreStateValidator.validate around the instances().get call
VMRestoreStateValidator_validate(answer, vm) ==
    Verdict("VM Restore State", answer = "ok" /\ VMRestoreStateValidator(vm), <<>>)

\* a permission validator that asks about nothing
missing_permissions_none(asked, granted) == <<>>

\* `[p for p in self.INSTANCE_PERMISSIONS if p not in granted_permissions]`
missing_permissions(asked, granted) ==
    SelectSeq(asked, LAMBDA q : q \notin Range(granted))

\* IAMPermissionsValidator.validate: only INSTANCE_PERMISSIONS are asked
\* about; a 404 is left to the resource-state validator
IAMPermissionsValidator_validate(answer, held) ==
    IF answer = "404" THEN Verdict("IAM Permissions", TRUE, <<>>)
    ELSE IF answer = "error" THEN Verdict("IAM Permissions", FALSE, <<>>)
    ELSE LET granted == testIamPermissions(INSTANCE_PERMISSIONS, held)
             missing == missing_permissions(INSTANCE_PERMISSIONS, granted)
         IN  Verdict("IAM Permissions", missing = <<>>, missing)

NoVerdict == Verdict("None", FALSE, <<>>)

ProbeInputs ==
    { [phase |-> "created", validator |-> v, answer |-> a, vm |-> vm,
       held |-> RequiredPermissions, verdict |-> NoVerdict] :
      v \in {"VM State", "VM Restore State"}, a \in ApiAnswers, vm \in ProbedVMs }
    \cup
    { [phase |-> "created", validator |-> "IAM Permissions", answer |-> a,
       vm |-> CHOOSE vm \in ProbedVMs : vm.status = "RUNNING" /\ vm.items = <<>>
                                        /\ vm.attached = <<>>,
       held |-> h, verdict |-> NoVerdict] :
      a \in ApiAnswers, h \in HeldPermissions }

\* a validator touches nothing but its own result
ValidatorIdle ==
    UNCHANGED <<cloud, wf, entry, config, pc, validation, tracker,
                operations_map, info, result, rbVars, execLog, compLog, calls,
                runs, faults, manual, pre, prev, poll, meta>>

ProbeVMState ==
    /\ probe.phase = "created" /\ probe.validator = "VM State"
    /\ probe' = [probe EXCEPT !.phase = "validated",
                    !.verdict = VMStateValidator_validate(probe.answer, probe.vm)]
    /\ ValidatorIdle

ProbeVMRestoreState ==
    /\ probe.phase = "created" /\ probe.validator = "VM Restore State"
    /\ probe' = [probe EXCEPT !.phase = "validated",
                    !.verdict = VMRestoreStateValidator_validate(probe.answer, probe.vm)]
    /\ ValidatorIdle

ProbeIAMPermissions ==
    /\ probe.phase = "created" /\ probe.validator = "IAM Permissions"
    /\ probe' = [probe EXCEPT !.phase = "validated",
                    !.verdict = IAMPermissionsValidator_validate(probe.answer, probe.held)]
    /\ ValidatorIdle

ValidatorsInit ==
    PollIdle /\ poll = NoPoll /\ probe \in ProbeInputs /\ meta = NoMeta

ValidatorsNext == ProbeVMState \/ ProbeVMRestoreState \/ ProbeIAMPermissions

SpecValidators == ValidatorsInit /\ [][ValidatorsNext]_vars

\* ================================================================= claims
\* what the logs of the current run say
StepNames(log) == [i \in 1..Len(log) |-> log[i].step]
Succeeded(log) == SelectSeq(log, LAMBDA e : e.success)
Undone(log) == [i \in 1..Len(log) |-> [step |-> log[i].step, data |-> log[i].data]]
OfInvocation(n) == SelectSeq(compLog, LAMBDA e : e.inv = n)
IsPrefix(a, b) == Len(a) <= Len(b) /\ \A i \in 1..Len(a) : a[i] = b[i]
LastExec == execLog[Len(execLog)]
\* the rollback that execute() started itself is running or has returned
AutoRollbackRunning == pc = "rollback" /\ ~rbManual
AutoRollbackReturned == pc = "done" /\ rbResult # "None" /\ manual = 0
\* every RollbackHandler.rollback call so far was a call of rollback()
NoAutoRollback == rbInv = manual
SameAttachments(c, d) == Range(c.attached) = Range(d.attached)
BootSources(c) == {c.attached[i].source : i \in {j \in 1..Len(c.attached) : c.attached[j].boot}}

\* C1: the rollback execute() starts after a failed step calls
\* rollback(rollback_data) on the steps recorded as successful, with the data
\* each of them returned, each once, in the reverse of the order in which
\* execute() ran them, and on no other step.
C1_RollbackReverseOrder ==
    /\ AutoRollbackRunning =>
          IsPrefix(Undone(compLog), Reverse(Undone(Succeeded(execLog))))
    /\ AutoRollbackReturned =>
          Undone(compLog) = Reverse(Undone(Succeeded(execLog)))

C1_Witness ==
    /\ AutoRollbackReturned
    /\ Len(compLog) >= 3
    /\ ~LastExec.success

\* C2: a rescue entered through rescue_vm on a VM that was RUNNING or
\* TERMINATED, one of whose steps failed and whose rollback ended with every
\* compensation returning True, leaves the VM as it was: status, attached
\* disks, boot disk, metadata items, and no rescue disk of the run.
C2_RolledBackIsPristine ==
    ( /\ wf = "rescue" /\ entry = "main"
      /\ pre.status \in VALID_STATES
      /\ AutoRollbackReturned
      /\ execLog # <<>> /\ ~LastExec.success
      /\ \A i \in 1..Len(compLog) : compLog[i].ok )
    => /\ cloud.status = pre.status
       /\ SameAttachments(cloud, pre)
       /\ BootSources(cloud) = BootSources(pre)
       /\ cloud.items = pre.items
       /\ info.rescue_disk_name \notin cloud.disks

\* C3: a rescue that returned True followed by a restore that returned True
\* (its delete step, if any, having succeeded) gives back the boot device,
\* the metadata items and the disk list of before the rescue, and the rescue
\* disk is gone when delete_rescue_disk is set.
C3_RoundTrip ==
    ( /\ wf = "restore" /\ prev.wf = "rescue"
      /\ pc = "done" /\ result = "True" /\ rbInv = 0
      /\ LastExec.success )
    => /\ BootSources(cloud) = BootSources(prev.pre)
       /\ Range(cloud.items) = Range(prev.pre.items)
       /\ AttachedSources(cloud) = AttachedSources(prev.pre)
       /\ cloud.disks \ {info.rescue_disk_name} = prev.pre.disks
       /\ config.delete_rescue_disk => info.rescue_disk_name \notin cloud.disks

\* C4 as claimed: no Operation.execute() is called unless validate() ran and
\* every validator passed, whichever way the workflow is entered.
C4_ValidatedBeforeExecute ==
    execLog # <<>> =>
        (validation # <<>> /\ \A i \in 1..Len(validation) : validation[i].passed)

\* C4 as amended: a workflow entered through main.rescue_vm / main.restore_vm
\* calls no Operation.execute(), and issues no mutating client call, unless
\* validate() ran and every validator passed.
C4_MainValidatedBeforeExecute ==
    (entry = "main" /\ (pc \notin {"created", "done"} \/ execLog # <<>> \/ calls # <<>>))
    => (validation # <<>> /\ \A i \in 1..Len(validation) : validation[i].passed)

C4_Witness ==
    /\ entry = "main" /\ execLog # <<>>
    /\ \E i \in 1..Len(calls) : calls[i].api = "instances.stop"

\* the steps of either workflow that come after the safety snapshot
AfterSnapshot(e) == e.step # "Create Snapshot"
ForwardOnlyAfterSuccess ==
    \A i \in 1..(Len(execLog) - 1) : AfterSnapshot(execLog[i]) => execLog[i].success
RolledBackAtOnce ==
    \/ pc = "rollback"
    \/ pc = "done" /\ rbResult # "None" /\ result = "False"

\* C5 as claimed: a step after the snapshot runs only if the step before it
\* returned success, and once such a step fails the rollback starts at once
\* and execute() calls no further operation.
C5_FailedStepRollsBack ==
    /\ ForwardOnlyAfterSuccess
    /\ (execLog # <<>> /\ AfterSnapshot(LastExec) /\ ~LastExec.success)
          => RolledBackAtOnce

\* C5 as amended: the same, except that a failure of the restore workflow's
\* final Delete Rescue Disk step starts no rollback.
C5_FailedStepRollsBackButDelete ==
    /\ ForwardOnlyAfterSuccess
    /\ (execLog # <<>> /\ AfterSnapshot(LastExec) /\ ~LastExec.success
         /\ LastExec.step # "Delete Rescue Disk")
          => RolledBackAtOnce

C5_Witness ==
    /\ pc = "rollback" /\ ~rbManual
    /\ Len(execLog) >= 4 /\ ~LastExec.success

\* C6: in a rescue with create_snapshot and require_snapshot, a failed Create
\* Snapshot ends execute() with False before Stop VM or any other step is
\* run; the tracker holds no successful entry, and a rollback over it calls
\* no compensation and returns True.
C6_RequiredSnapshotAborts ==
    ( /\ wf = "rescue" /\ config.create_snapshot /\ config.require_snapshot
      /\ execLog # <<>> /\ ~execLog[1].success )
    => /\ result = "False"
       /\ StepNames(execLog) = <<"Create Snapshot">>
       /\ \A i \in 1..Len(calls) : calls[i].api = "disks.createSnapshot"
       /\ \A i \in 1..Len(tracker) : ~tracker[i].success
       /\ compLog = <<>>
       /\ rbResult \in {"None", "True"}
       /\ pc = "rollback" => (rbManual /\ rbOps = <<>>)

C6_Witness ==
    /\ wf = "rescue" /\ config.create_snapshot /\ config.require_snapshot
    /\ execLog # <<>> /\ ~execLog[1].success
    /\ pc = "done" /\ rbResult = "True" /\ manual = 1

RestoreSteps ==
    <<"Stop VM", "Detach Rescue Disk", "Detach Original Disk",
      "Attach Original Disk", "Set Metadata", "Start VM">>

\* C7: in a restore with delete_rescue_disk, when the six steps up to Start VM
\* succeeded and Delete Rescue Disk fails, execute() returns True and starts
\* no rollback: no compensation is called unless the caller calls rollback().
C7_DeleteFailureIsWarning ==
    ( /\ wf = "restore"
      /\ execLog # <<>> /\ LastExec.step = "Delete Rescue Disk"
      /\ ~LastExec.success )
    => /\ config.delete_rescue_disk
       /\ result = "True"
       /\ NoAutoRollback
       /\ manual = 0 => (pc = "done" /\ compLog = <<>>)

C7_Witness ==
    /\ wf = "restore" /\ pc = "done" /\ manual = 0
    /\ Len(execLog) = 7 /\ ~LastExec.success
    /\ \A i \in 1..6 : execLog[i].success

\* C8: DeleteDiskOperation is in no operations_map, its execute leaves no
\* entry in the tracker and no rollback data, and no rollback, started by
\* execute() or by the caller, ever calls DeleteDiskOperation.rollback.
C8_DeleteNeverCompensated ==
    /\ \A n \in DOMAIN operations_map : operations_map[n] # "DeleteDiskOperation"
    /\ \A i \in 1..Len(compLog) : compLog[i].op # "DeleteDiskOperation"
    /\ \A i \in 1..Len(tracker) : tracker[i].operation_name # "Delete Rescue Disk"
    /\ \A i \in 1..Len(execLog) :
          execLog[i].op = "DeleteDiskOperation" => execLog[i].data.kind = "None"
    /\ \A i \in 1..Len(rbOps) : rbOps[i].operation_name # "Delete Rescue Disk"

C8_Witness ==
    /\ wf = "restore" /\ pc = "done"
    /\ execLog # <<>> /\ LastExec.op = "DeleteDiskOperation" /\ LastExec.success
    /\ manual = 1 /\ rbResult # "None" /\ Len(compLog) = 6

\* C9: in a restore DeleteDisk.execute is called at most once, only with
\* delete_rescue_disk set, only as the seventh call after the six steps Stop
\* VM .. Start VM all returned success, nothing is executed after it, and
\* execute() starts no rollback in a run that called it.
C9_DeleteLast ==
    \A i \in 1..Len(execLog) :
        execLog[i].op = "DeleteDiskOperation" =>
            /\ wf = "restore" /\ config.delete_rescue_disk
            /\ i = 7 /\ Len(execLog) = 7
            /\ StepNames(SubSeq(execLog, 1, 6)) = RestoreSteps
            /\ \A j \in 1..6 : execLog[j].success
            /\ NoAutoRollback
            /\ result = "True"

C9_Witness ==
    /\ Len(execLog) = 7 /\ LastExec.op = "DeleteDiskOperation"
    /\ LastExec.success /\ pc = "done"

\* the successful entries of the tracker, read entry by entry
TrackedSuccesses ==
    LET idx == {i \in 1..Len(tracker) : tracker[i].success}
        RECURSIVE pick(_)
        pick(k) == IF k > Len(tracker) THEN <<>>
                   ELSE IF k \in idx
                   THEN <<[success |-> TRUE, step |-> tracker[k].operation_name,
                           data |-> tracker[k].rollback_data]>> \o pick(k + 1)
                   ELSE pick(k + 1)
    IN  pick(1)

\* C10: a RollbackHandler.rollback that has returned called the compensation
\* of every successful step of the tracker, also of those that come after a
\* compensation that returned False; it returned False when one of them
\* returned False and True when all of them returned True.
C10_BestEffort ==
    (pc = "done" /\ rbResult # "None") =>
        LET mine == OfInvocation(rbInv)
        IN  /\ Undone(mine) = Reverse(Undone(TrackedSuccesses))
            /\ rbResult = "False" <=> \E i \in 1..Len(mine) : ~mine[i].ok

C10_Witness ==
    /\ pc = "done" /\ rbResult = "False"
    /\ LET mine == OfInvocation(rbInv)
       IN  /\ Len(mine) >= 3
           /\ ~mine[1].ok
           /\ mine[2].ok /\ mine[3].ok

\* the successful tracker entries whose name the operations_map lacks, and
\* those the handler has a compensation to call for
MissingFromMap ==
    SelectSeq(tracker, LAMBDA e : e.success /\ e.operation_name \notin DOMAIN operations_map)
Compensable ==
    SelectSeq(tracker, LAMBDA e : /\ e.success
                                  /\ e.operation_name \in DOMAIN operations_map
                                  /\ e.rollback_data # NoData)
AsUndone(ops) ==
    [i \in 1..Len(ops) |-> [step |-> ops[i].operation_name, data |-> ops[i].rollback_data]]
HandlerReturned == pc = "done" /\ rbResult # "None"
AllCompensationsOk == \A i \in 1..Len(compLog) : compLog[i].ok

\* C11 as claimed: a successful step whose name the operations_map lacks is
\* skipped, the handler goes on with the remaining steps, and the missing
\* entry does not make the result False: the result is False only when a
\* compensation that was called did not return True.
C11_MissingEntryIsNoError ==
    HandlerReturned =>
        /\ Undone(OfInvocation(rbInv)) = Reverse(AsUndone(Compensable))
        /\ rbResult = "False" => ~AllCompensationsOk

\* C11 as amended: a successful step whose name the operations_map lacks is
\* skipped, no compensation is called for it, and the handler goes on with
\* the remaining steps; but the missing entry is logged as an error and makes
\* the result False.
C11_MissingEntryFailsRollback ==
    HandlerReturned =>
        /\ Undone(OfInvocation(rbInv)) = Reverse(AsUndone(Compensable))
        /\ rbResult = "True" <=> (MissingFromMap = <<>> /\ AllCompensationsOk)

C11_Witness ==
    /\ HandlerReturned /\ rbResult = "False"
    /\ AllCompensationsOk /\ compLog # <<>>
    /\ Len(tracker) = 2 /\ tracker[2].success
    /\ tracker[2].operation_name \notin DOMAIN operations_map
    /\ tracker[2].rollback_data # NoData

\* the compensation called by the step just taken, if it called one
Compensated == Len(compLog') = Len(compLog) + 1
NewCompensation == compLog'[Len(compLog')]

\* C12: CreateSnapshotOperation.rollback deletes a snapshot exactly when the
\* record is flagged created_by_operation and names it, and then that
\* snapshot only; it returns True either way; no other compensation deletes
\* a snapshot, the snapshot that existed before stays, and a failed or
\* timed-out Create Snapshot leaves no record at all.
C12_SnapshotRollback ==
    /\ [][ IF Compensated /\ NewCompensation.op = "CreateSnapshotOperation"
           THEN LET d == NewCompensation.data
                    named == d.created_by_operation /\ d.snapshot_name # None
                IN  /\ NewCompensation.ok
                    /\ ~named => (cloud' = cloud /\ calls' = calls)
                    /\ calls' # calls =>
                          /\ calls' = Append(calls, Call("snapshots.delete",
                                                         d.snapshot_name, cloud))
                          /\ cloud'.snapshots = cloud.snapshots \ {d.snapshot_name}
                    /\ (named /\ faults' = faults /\ d.snapshot_name \in cloud.snapshots)
                          => calls' # calls
           ELSE cloud'.snapshots = cloud.snapshots ]_vars
    /\ [](/\ PreExistingSnapshot \in cloud.snapshots
          /\ \A i \in 1..Len(tracker) :
                (tracker[i].operation_name = "Create Snapshot" /\ ~tracker[i].success)
                    => tracker[i].rollback_data = NoData)

C12_Witness ==
    /\ HandlerReturned
    /\ \A i \in 1..Len(compLog) : compLog[i].op = "CreateSnapshotOperation"
    /\ \E i \in 1..Len(compLog) : ~compLog[i].data.created_by_operation
    /\ \E i \in 1..Len(compLog) :
          /\ compLog[i].data.created_by_operation
          /\ compLog[i].data.snapshot_name \in pre.snapshots \ cloud.snapshots

RunStateCompensation ==
    Compensated /\ NewCompensation.op \in {"StopVMOperation", "StartVMOperation"}

\* C13 as claimed: StopVMOperation.rollback / StartVMOperation.rollback called
\* while the VM's status equals the recorded prior status issues no start or
\* stop request, changes nothing and returns True.
C13_MatchingStateIsNoOp ==
    [][ (RunStateCompensation /\ NewCompensation.data.original_status = cloud.status)
        => (calls' = calls /\ cloud' = cloud /\ NewCompensation.ok) ]_vars

\* C13 as amended: the two rollbacks look at the recorded prior status only.
\* StopVMOperation.rollback with prior status RUNNING issues a start request
\* whatever the VM's status, also when it is RUNNING already, and returns
\* True once the request is accepted and RUNNING is seen;
\* StartVMOperation.rollback with prior status TERMINATED issues a stop
\* request likewise.  With the other prior status they issue no request,
\* change nothing and return True.
C13_RequestFollowsRecord ==
    [][ RunStateCompensation =>
        LET stop == NewCompensation.op = "StopVMOperation"
            back == IF stop THEN "RUNNING" ELSE "TERMINATED"
            api == IF stop THEN "instances.start" ELSE "instances.stop"
        IN  IF NewCompensation.data.original_status = back
            THEN /\ faults' = faults =>
                       /\ calls' = Append(calls, Call(api, None, cloud))
                       /\ cloud'.status = back
                       /\ NewCompensation.ok
                 /\ NewCompensation.ok => calls' # calls
            ELSE calls' = calls /\ cloud' = cloud /\ NewCompensation.ok ]_vars

C13_Witness ==
    /\ HandlerReturned /\ rbResult = "True"
    /\ Len(compLog) = 1 /\ compLog[1].op = "StopVMOperation"
    /\ compLog[1].data.original_status = "RUNNING"
    /\ pre.status = "RUNNING"
    /\ calls = <<Call("instances.start", None, pre)>>

\* the execute() call made by the step just taken, if it made one
Called == Len(execLog') = Len(execLog) + 1
NewExecuted == execLog'[Len(execLog')]

\* C14: a successful DetachDiskOperation.execute returns the attachment
\* (source, boot, autoDelete, deviceName, mode) exactly as it was on the VM
\* before the detach request, and a failed one, the device not being found
\* included, has issued no detach; DetachDiskOperation.rollback re-attaches
\* with exactly the saved values, not with those AttachDiskOperation uses.
C14_DetachSavesConfig ==
    [][ /\ (Called /\ NewExecuted.op = "DetachDiskOperation") =>
              IF NewExecuted.success
              THEN LET disk_info == NewExecuted.data.disk_info
                   IN  /\ disk_info \in Range(cloud.attached)
                       /\ disk_info \notin Range(cloud'.attached)
                       /\ calls' = Append(calls, Call("instances.detachDisk",
                                                      disk_info.deviceName, cloud))
              ELSE cloud' = cloud /\ calls' = calls
        /\ (Compensated /\ NewCompensation.op = "DetachDiskOperation") =>
              LET disk_info == NewCompensation.data.disk_info
              IN  IF NewCompensation.ok
                  THEN /\ calls' = Append(calls, Call("instances.attachDisk",
                                                      disk_info, cloud))
                       /\ cloud'.attached = Append(cloud.attached, disk_info)
                  ELSE cloud' = cloud /\ calls' = calls ]_vars

C14_Witness ==
    /\ wf = "rescue" /\ AutoRollbackReturned
    /\ \E i \in 1..Len(compLog) :
          /\ compLog[i].op = "DetachDiskOperation" /\ compLog[i].ok
          /\ compLog[i].data.disk_info = BootDisk(TRUE, PersistentDisk0)
          /\ compLog[i].data.disk_info # AttachBody(OrigDisk, TRUE)
    /\ \E i \in 1..Len(execLog) :
          execLog[i].op = "AttachDiskOperation" /\ execLog[i].success
    /\ cloud.attached = <<BootDisk(TRUE, PersistentDisk0)>>

ValidatorNames(results) == [i \in 1..Len(results) |-> results[i].validator_name]

\* C15: validate() runs the three validators once each, in the order they
\* were added, whatever the earlier ones returned: the results hold the
\* verdict of each, the third being the VM state validator's on the VM as it
\* is; get_failures() holds exactly the results that did not pass, and
\* all_passed() is true exactly when get_failures() is empty.
C15_NoShortCircuit ==
    [][ (validation' # validation /\ validation' # <<>>) =>
        LET results == validation'
            failed == {i \in 1..Len(results) : ~results[i].passed}
        IN  /\ ValidatorNames(results) =
                  <<"Credentials & Authentication", "IAM Permissions",
                    IF wf = "rescue" THEN "VM State" ELSE "VM Restore State">>
            /\ results[3].passed = IF wf = "rescue" THEN VMStateValidator(cloud)
                                   ELSE VMRestoreStateValidator(cloud)
            /\ Cardinality(failed \ {3}) = faults' - faults
            /\ Len(get_failures(results)) = Cardinality(failed)
            /\ \A i \in failed : results[i] \in Range(get_failures(results))
            /\ all_passed(results) <=> get_failures(results) = <<>> ]_vars

C15_Witness ==
    /\ Len(validation) = 3
    /\ ~validation[1].passed /\ ~validation[2].passed
    /\ ValidatorNames(get_failures(validation)) =
          <<"Credentials & Authentication", "IAM Permissions">>
    /\ pc = "done" /\ result = "False" /\ execLog = <<>>

\* C16: rollback() called after an earlier rollback of the same run has
\* compensated every successful step, each compensation returning True,
\* calls no compensation again and returns True.
C16_SecondRollbackIsNoOp ==
    ( /\ pc = "done" /\ rbInv >= 2 /\ rbManual
      /\ Undone(OfInvocation(1)) = Reverse(Undone(TrackedSuccesses))
      /\ \A i \in 1..Len(compLog) : compLog[i].inv = 1 => compLog[i].ok )
    => /\ OfInvocation(rbInv) = <<>>
       /\ rbResult = "True"

\* execute() was entered and no step it ran is the reason it stopped
NoFailedStep ==
    /\ entry = "main" => (validation # <<>> /\ all_passed(validation))
    /\ execLog = <<>> \/ LastExec.success

\* C17: when execute() of either orchestrator stops on an exception (raised
\* by the disk discovery or between two steps) and not on a failed step, it
\* has called the rollback handler, which compensates the steps recorded as
\* successful so far, in reverse, and execute() returns False.
C17_UnexpectedRollsBack ==
    /\ (AutoRollbackRunning /\ NoFailedStep) =>
          /\ result = "None"
          /\ IsPrefix(Undone(OfInvocation(1)), Reverse(Undone(Succeeded(execLog))))
    /\ (pc = "done" /\ result = "False" /\ NoFailedStep) =>
          /\ rbInv >= 1 /\ rbResult # "None"
          /\ Undone(OfInvocation(1)) = Reverse(Undone(Succeeded(execLog)))

C17_Witness ==
    /\ pc = "done" /\ result = "False" /\ NoFailedStep
    /\ manual = 0 /\ Len(compLog) >= 4
    /\ LastExec.step = "Attach Rescue Disk" \/ LastExec.step = "Attach Original Disk"

\* C18: every polling wait ends: execute() of StopVM, StartVM, CreateDisk and
\* CreateSnapshot returns, whatever statuses the queries answer; no status is
\* queried once the elapsed time exceeds the timeout; and when the request
\* was issued and neither the target status nor FAILED was ever answered,
\* the result is a failure whose message names the timeout, returned after
\* the elapsed time exceeded it.
C18_PollingTerminates ==
    /\ <>(poll.phase = "returned")
    /\ [](poll.phase = "query" => poll.now <= poll.timeout)
    /\ []( ( /\ poll.phase = "returned" /\ poll.requests = 1
             /\ TargetStatus(poll.op) \notin Range(poll.seen)
             /\ "FAILED" \notin Range(poll.seen) )
           => /\ ~poll.result.success
              /\ poll.result.message = TimeoutMessage(poll.op, poll.timeout)
              /\ poll.result.message.seconds = poll.timeout
              /\ poll.now > poll.timeout )

C18_Witness ==
    /\ poll.phase = "returned" /\ ~poll.result.success
    /\ poll.result.message = TimeoutMessage(poll.op, 10)
    /\ Len(poll.seen) = 3
    /\ TargetStatus(poll.op) \notin Range(poll.seen)

\* C19: StopVMOperation.execute on a RUNNING VM whose polls reach TERMINATED
\* before the timeout has issued one stop request and returns success with
\* the status read before the stop, RUNNING, as the recorded prior status; on
\* a VM already TERMINATED it returns success without a stop request and
\* without a poll, and records TERMINATED.
C19_StopRecordsPriorStatus ==
    (poll.phase = "returned" /\ poll.op = "StopVMOperation") =>
        /\ poll.first = "TERMINATED" =>
              /\ poll.requests = 0 /\ poll.seen = <<>>
              /\ poll.result.success
              /\ poll.result.rollback_data =
                    [kind |-> "status", original_status |-> "TERMINATED"]
        /\ ( /\ poll.first = "RUNNING" /\ poll.seen # <<>>
             /\ poll.seen[Len(poll.seen)] = "TERMINATED" ) =>
              /\ poll.requests = 1
              /\ poll.now <= poll.timeout
              /\ poll.result.success
              /\ poll.result.rollback_data =
                    [kind |-> "status", original_status |-> "RUNNING"]
        /\ poll.result.success => poll.first \in {"RUNNING", "TERMINATED"}

C19_Witness ==
    /\ poll.phase = "returned" /\ poll.op = "StopVMOperation"
    /\ poll.seen = <<"RUNNING", "RUNNING", "TERMINATED">>
    /\ poll.result.success /\ poll.requests = 1

\* the tracker entries that a sequence of execute() calls would leave if each
\* call's result were added
Tracked(log) ==
    [i \in 1..Len(log) |->
        [operation_name |-> log[i].step, success |-> log[i].success,
         rollback_data |-> log[i].data]]

IsFinalDelete(e) == e.op = "DeleteDiskOperation"

\* C20 as stated: the tracker holds one entry per execute() call of the run,
\* in call order, failed calls and the reverse workflow's final disk delete
\* included.
C20_TrackerHoldsEveryCall == tracker = Tracked(execLog)

\* C20: the tracker holds one entry per execute() call of the run, in call
\* order, whether the call succeeded or not, for every call from the optional
\* safety snapshot on, except the reverse workflow's final disk delete, whose
\* result is not added to the tracker; that delete is the only call left out.
C20_TrackerHoldsEveryCallButDelete ==
    /\ tracker = Tracked(SelectSeq(execLog, LAMBDA e : ~IsFinalDelete(e)))
    /\ \A i \in 1..Len(execLog) :
          IsFinalDelete(execLog[i]) =>
              wf = "restore" /\ i = Len(execLog) /\ Len(tracker) = i - 1

C20_Witness ==
    /\ wf = "restore" /\ pc = "done"
    /\ Len(execLog) = 7 /\ IsFinalDelete(LastExec)
    /\ Len(tracker) = 6
    /\ StepNames(execLog) = [i \in 1..6 |-> tracker[i].operation_name]
                                \o <<"Delete Rescue Disk">>

\* C21: with config.dry_run set, a run of either workflow issues no mutating
\* client call and leaves the VM's attached disks and metadata, the disks and
\* the snapshots as they were when the orchestrator was created.
C21_DryRunChangesNothing ==
    (wf # "none" /\ config.dry_run) =>
        /\ calls = <<>>
        /\ cloud.attached = pre.attached /\ cloud.items = pre.items
        /\ cloud.disks = pre.disks /\ cloud.snapshots = pre.snapshots

\* C22: with config.auto_rollback cleared, a failed step starts no rollback
\* of its own: every RollbackHandler.rollback call of the run is a call of
\* the public rollback(), and without one no compensation is invoked; with
\* auto_rollback set, a failed step other than the final delete rolls back.
C22_NoRollbackWhenDisabled ==
    /\ (wf # "none" /\ ~config.auto_rollback /\ execLog # <<>>
         /\ ~LastExec.success) =>
          /\ NoAutoRollback /\ ~AutoRollbackRunning
          /\ manual = 0 => compLog = <<>>
    /\ (wf # "none" /\ config.auto_rollback /\ execLog # <<>>
         /\ AfterSnapshot(LastExec) /\ ~LastExec.success
         /\ LastExec.step # "Delete Rescue Disk") => RolledBackAtOnce

\* what a followed validator was given and what it returned
Validated(v) == probe.phase = "validated" /\ probe.validator = v
Passed == probe.verdict.result.passed
CarriesMarker(vm) == \E i \in 1..Len(vm.items) : vm.items[i].key = "rescue-mode"
RescueDiskAttached(vm) ==
    \E i \in 1..Len(vm.attached) : vm.attached[i].source.base = "rescue-disk"
OriginalDiskAttached(vm) ==
    \E i \in 1..Len(vm.attached) :
        vm.attached[i].source.base # "rescue-disk" /\ ~vm.attached[i].boot
Operable(vm) == vm.status \in {"RUNNING", "TERMINATED"}

\* C23: VMStateValidator fails whenever the VM's metadata holds the
\* rescue-mode item, VMRestoreStateValidator fails whenever it does not, and
\* both fail when instances().get answers 404.
C23_MarkerEnforcesDirection ==
    /\ (Validated("VM State") /\ CarriesMarker(probe.vm)) => ~Passed
    /\ (Validated("VM Restore State") /\ ~CarriesMarker(probe.vm)) => ~Passed
    /\ ( /\ probe.phase = "validated"
         /\ probe.validator \in {"VM State", "VM Restore State"}
         /\ probe.answer = "404" ) => ~Passed

C23_Witness ==
    /\ Validated("VM Restore State") /\ probe.answer = "ok"
    /\ ~CarriesMarker(probe.vm) /\ Operable(probe.vm)
    /\ RescueDiskAttached(probe.vm) /\ OriginalDiskAttached(probe.vm)
    /\ ~Passed

\* C24 as stated: in both directions the resource-state validator fails when
\* the VM's status is neither RUNNING nor TERMINATED.
C24_InoperableStatusFails ==
    ( /\ probe.phase = "validated"
      /\ probe.validator \in {"VM State", "VM Restore State"}
      /\ ~Operable(probe.vm) ) => ~Passed

\* C24: the forward direction's validator fails when the VM's status is
\* neither RUNNING nor TERMINATED; the reverse direction's validator does not
\* look at the status: a VM that carries the marker and has the rescue disk
\* and a non-boot other disk attached passes in any status.
C24_InoperableStatusFailsForward ==
    /\ (Validated("VM State") /\ ~Operable(probe.vm)) => ~Passed
    /\ ( /\ Validated("VM Restore State") /\ probe.answer = "ok"
         /\ CarriesMarker(probe.vm)
         /\ RescueDiskAttached(probe.vm) /\ OriginalDiskAttached(probe.vm) )
          => Passed

C24_Witness ==
    /\ Validated("VM State") /\ probe.answer = "ok"
    /\ probe.vm.status = "STOPPING"
    /\ ~CarriesMarker(probe.vm)
    /\ \E i \in 1..Len(probe.vm.attached) : probe.vm.attached[i].boot
    /\ ~Passed

NotHeld(permissions) == Range(permissions) \ probe.held

IsMarker(item) == item.key \in {"rescue-mode", "startup-script", "rescue-original-disk"}

\* C26: a Set Metadata step of the reverse workflow that succeeds removes only
\* the maintenance markers: every item that was on the VM before the step and
\* is not a marker is on it afterwards with the same value, no marker
\* remains, and no item is on it that was not there before.
C26_OnlyMarkersRemoved ==
    [][ ( /\ wf = "restore" /\ pc = "Set Metadata"
          /\ Called /\ NewExecuted.success )
        => /\ \A i \in 1..Len(cloud.items) :
                 ~IsMarker(cloud.items[i]) => cloud.items[i] \in Range(cloud'.items)
           /\ \A j \in 1..Len(cloud'.items) :
                 /\ ~IsMarker(cloud'.items[j])
                 /\ cloud'.items[j] \in Range(cloud.items) ]_vars

C26_Witness ==
    /\ wf = "restore" /\ pc = "Start VM"
    /\ LastExec.step = "Set Metadata" /\ LastExec.success
    /\ \E i \in 1..Len(pre.items) : IsMarker(pre.items[i])
    /\ UserItem \in Range(pre.items)
    /\ cloud.items = <<UserItem>>

RescueSteps ==
    <<"Stop VM", "Create Rescue Disk", "Detach Boot Disk", "Attach Rescue Disk",
      "Set Metadata", "Start VM", "Attach Original Disk">>
CallsOf(api) == SelectSeq(calls, LAMBDA c : c.api = api)
ForwardReturnedTrue ==
    wf = "rescue" /\ pc = "done" /\ result = "True" /\ rbInv = 0
BootDiskNames(c) == { c.attached[i].source : i \in { j \in 1..Len(c.attached) : c.attached[j].boot } }

\* C27: when the forward workflow's execute() has returned True, its
\* execute() calls were, once each and in this order, Create Snapshot (only
\* with create_snapshot), Stop VM, Create Rescue Disk, Detach Boot Disk,
\* Attach Rescue Disk, Set Metadata, Start VM, Attach Original Disk, every
\* one after the snapshot with success; the rescue disk was attached as boot
\* and the original disk as non-boot; the metadata written names the
\* original boot disk under rescue-original-disk; and the settle delay is
\* entered only by a Start VM that succeeded and is the only way to the
\* secondary attach.
C27_ForwardOrder ==
    /\ [](ForwardReturnedTrue =>
            /\ StepNames(execLog) =
                  (IF config.create_snapshot THEN <<"Create Snapshot">> ELSE <<>>)
                      \o RescueSteps
            /\ \A i \in 1..Len(execLog) : AfterSnapshot(execLog[i]) => execLog[i].success
            /\ LET att == CallsOf("instances.attachDisk")
                   md == CallsOf("instances.setMetadata")
               IN  /\ Len(att) = 2
                   /\ att[1].arg.boot /\ att[1].arg.source.base = "rescue-disk"
                   /\ ~att[2].arg.boot /\ BootDiskNames(pre) = {att[2].arg.source}
                   /\ Len(md) = 1
                   /\ \E k \in 1..Len(md[1].arg.items) :
                         /\ md[1].arg.items[k].key = "rescue-original-disk"
                         /\ BootDiskNames(pre) = {md[1].arg.items[k].value})
    /\ [][ /\ (wf = "rescue" /\ pc' = "Settle" /\ pc # "Settle") =>
                 /\ pc = "Start VM" /\ Called
                 /\ NewExecuted.step = "Start VM" /\ NewExecuted.success
           /\ (wf = "rescue" /\ Called /\ NewExecuted.step = "Attach Original Disk") =>
                 pc = "Attach Original Disk"
           /\ (wf = "rescue" /\ pc' = "Attach Original Disk" /\ pc # pc') =>
                 (pc = "Settle" /\ ~Called) ]_vars

C27_Witness ==
    /\ ForwardReturnedTrue /\ config.create_snapshot
    /\ Len(execLog) = 8 /\ execLog[1].success
    /\ Len(calls) = 8

ReverseReturnedTrue ==
    wf = "restore" /\ pc = "done" /\ result = "True" /\ rbInv = 0

\* C28: when the reverse workflow's execute() has returned True, its
\* execute() calls were, once each and in this order, Stop VM, Detach Rescue
\* Disk, Detach Original Disk, Attach Original Disk, Set Metadata, Start VM,
\* all with success, followed by Delete Rescue Disk exactly when
\* delete_rescue_disk is set; the one attach request is for the original
\* disk as boot; and Attach Original Disk is called only after Detach Rescue
\* Disk and Detach Original Disk succeeded, on a VM that has neither the
\* rescue disk nor the original disk attached.
C28_ReverseOrder ==
    /\ [](ReverseReturnedTrue =>
            /\ StepNames(execLog) =
                  RestoreSteps \o (IF config.delete_rescue_disk
                                   THEN <<"Delete Rescue Disk">> ELSE <<>>)
            /\ \A i \in 1..6 : execLog[i].success
            /\ LET att == CallsOf("instances.attachDisk")
               IN  /\ Len(att) = 1 /\ att[1].arg.boot
                   /\ att[1].arg.source = info.original_disk_name
            /\ Len(CallsOf("instances.detachDisk")) = 2
            /\ cloud.items = get_clean_metadata(pre))
    /\ [][ (wf = "restore" /\ Called /\ NewExecuted.step = "Attach Original Disk") =>
              /\ StepNames(execLog) =
                    <<"Stop VM", "Detach Rescue Disk", "Detach Original Disk">>
              /\ \A i \in 1..3 : execLog[i].success
              /\ \A i \in 1..Len(cloud.attached) :
                    /\ cloud.attached[i].source.base # "rescue-disk"
                    /\ cloud.attached[i].source # info.original_disk_name ]_vars

C28_Witness ==
    /\ ReverseReturnedTrue /\ config.delete_rescue_disk
    /\ Len(execLog) = 7
    /\ Len(CallsOf("instances.detachDisk")) = 2
    /\ Len(cloud.attached) = 1 /\ cloud.attached[1].boot

ToleratedSnapshotFailure ==
    /\ wf = "rescue" /\ config.create_snapshot /\ ~config.require_snapshot
    /\ execLog # <<>> /\ execLog[1].step = "Create Snapshot" /\ ~execLog[1].success

\* C29: in a forward run with create_snapshot and without require_snapshot,
\* a failed Create Snapshot is the tracker's first entry, marked failed; it
\* starts no rollback and ends nothing: the next step is Stop VM; execute()
\* returns True when the seven later steps succeed; and no rollback of the
\* run ever calls the snapshot's compensation.
C29_ToleratedSnapshotFailure ==
    ToleratedSnapshotFailure =>
        /\ tracker # <<>>
        /\ tracker[1].operation_name = "Create Snapshot" /\ ~tracker[1].success
        /\ Len(execLog) = 1 => (pc = "Stop VM" /\ rbInv = 0 /\ result = "None")
        /\ Len(execLog) >= 2 => execLog[2].step = "Stop VM"
        /\ (Len(execLog) = 8 /\ \A i \in 2..8 : execLog[i].success) =>
              (pc \in {"done", "rollback"} /\ result = "True")
        /\ \A i \in 1..Len(compLog) : compLog[i].step # "Create Snapshot"

C29_Witness ==
    /\ ToleratedSnapshotFailure
    /\ Len(execLog) = 8 /\ \A i \in 2..8 : execLog[i].success
    /\ pc = "done" /\ result = "True" /\ rbInv = 0

\* C30: StopVMOperation.execute and StartVMOperation.execute on a VM whose
\* status is neither RUNNING nor TERMINATED return a failure at once: no stop
\* or start request is issued, no status is polled, no time is waited, and
\* the result carries no compensation record.
C30_UnexpectedStatusFailsFast ==
    ( /\ poll.phase # "begin"
      /\ poll.op \in {"StopVMOperation", "StartVMOperation"}
      /\ poll.first \notin {"RUNNING", "TERMINATED"} ) =>
        /\ poll.phase = "returned"
        /\ ~poll.result.success
        /\ poll.requests = 0 /\ poll.seen = <<>> /\ poll.now = 0
        /\ poll.result.rollback_data = NoData

C30_Witness ==
    /\ poll.phase = "returned" /\ poll.op = "StartVMOperation"
    /\ poll.first = "STOPPING"
    /\ ~poll.result.success /\ poll.requests = 0

\* C31: SetMetadataOperation.rollback writes the item list saved by execute()
\* with the fingerprint the VM has at compensation time: unless the call
\* itself errors, the write is accepted although the fingerprint is no longer
\* the one execute() saw, and afterwards the VM's items are the saved ones.
C31_RollbackUsesFreshToken ==
    [][ (Compensated /\ NewCompensation.op = "SetMetadataOperation") =>
          LET d == NewCompensation.data
          IN  /\ calls' # calls =>
                    calls' = Append(calls,
                        Call("instances.setMetadata",
                             [fingerprint |-> cloud.fingerprint,
                              items |-> d.original_metadata.items], cloud))
              /\ faults' = faults => (NewCompensation.ok /\ calls' # calls)
              /\ NewCompensation.ok =>
                    /\ calls' # calls
                    /\ cloud'.items = d.original_metadata.items ]_vars

C31_Witness ==
    /\ compLog # <<>>
    /\ LET e == compLog[Len(compLog)]
           md == CallsOf("instances.setMetadata")
       IN  /\ e.op = "SetMetadataOperation" /\ e.ok
           /\ Len(md) = 2
           /\ md[2].arg.fingerprint # e.data.original_metadata.fingerprint
           /\ md[2].arg.items = e.data.original_metadata.items
           /\ cloud.items = e.data.original_metadata.items

\* C32: when the rollback loop comes to a successful step that is in the
\* operations mapping and whose rollback data is absent, it calls no
\* compensation and no client, leaves all_succeeded as it was, and goes on
\* with the steps that remain.
C32_NoRecordIsSkipped ==
    [][ ( /\ pc = "rollback" /\ rbOps # <<>>
          /\ Head(rbOps).operation_name \in DOMAIN operations_map
          /\ Head(rbOps).rollback_data = NoData
          /\ rbOps' # rbOps )
        => /\ compLog' = compLog /\ calls' = calls /\ cloud' = cloud
           /\ rbAll' = rbAll
           /\ rbOps' = Tail(rbOps) /\ pc' = "rollback" ]_vars

C32_Witness ==
    /\ HandlerReturned /\ rbResult = "True"
    /\ Len(tracker) = 2
    /\ tracker[2] = [operation_name |-> "Stop VM", success |-> TRUE,
                     rollback_data |-> NoData]
    /\ "Stop VM" \in DOMAIN operations_map
    /\ tracker[1].success /\ tracker[1].operation_name = "Create Rescue Disk"
    /\ Len(compLog) = 1 /\ compLog[1].step = "Create Rescue Disk" /\ compLog[1].ok

\* the entries of a log with the given success flag, in the log's order
RECURSIVE Keep(_, _)
Keep(log, flag) ==
    IF log = <<>> THEN <<>>
    ELSE (IF Head(log).success = flag THEN <<Head(log)>> ELSE <<>>)
            \o Keep(Tail(log), flag)
IsSuffix(a, b) ==
    Len(a) <= Len(b) /\ \A i \in 1..Len(a) : a[i] = b[Len(b) - Len(a) + i]

\* C33: every step of either workflow and of the rollback handler leaves the
\* tracker as it is or appends one entry to it; only the construction of a
\* new orchestrator starts from an empty tracker.  The successful and the
\* failed subset are the entries with and without success in the tracker's
\* order, together all of them, and get_rollback_operations() is the
\* successful subset reversed, which is what a running rollback goes through.
C33_TrackerAppendOnly ==
    /\ [][ IF runs' # runs THEN tracker' = <<>>
           ELSE \/ tracker' = tracker
                \/ /\ Len(tracker') = Len(tracker) + 1
                   /\ SubSeq(tracker', 1, Len(tracker)) = tracker ]_vars
    /\ [](/\ get_successful_operations(tracker) = Keep(tracker, TRUE)
          /\ get_failed_operations(tracker) = Keep(tracker, FALSE)
          /\ Len(get_successful_operations(tracker))
                + Len(get_failed_operations(tracker)) = Len(tracker)
          /\ get_rollback_operations(tracker) = Reverse(Keep(tracker, TRUE))
          /\ pc = "rollback" => IsSuffix(rbOps, Reverse(Keep(tracker, TRUE))))

C33_Witness ==
    /\ pc = "done" /\ rbResult # "None"
    /\ Len(tracker) >= 3 /\ ~tracker[Len(tracker)].success
    /\ Len(compLog) >= 2
    /\ Len(Keep(tracker, TRUE)) = Len(tracker) - 1

Executing == wf # "none" /\ pc \notin {"created", "done"}
ExecuteReturned == wf # "none" /\ pc = "done"
Completed == result = "True" /\ rbInv = 0 /\ execLog # <<>>
AbortedOnSnapshot ==
    /\ result = "False" /\ rbInv = 0
    /\ wf = "rescue" /\ config.create_snapshot /\ config.require_snapshot
    /\ Len(execLog) = 1 /\ ~execLog[1].success
    /\ Keep(tracker, TRUE) = <<>>
FailedAndRolledBack ==
    /\ result = "False" /\ rbInv = 1 /\ rbResult # "None" /\ rbOps = <<>>
    /\ StepNames(compLog) =
          [i \in 1..Len(Keep(tracker, TRUE)) |->
              Reverse(Keep(tracker, TRUE))[i].operation_name]

\* C34: a call of execute() of either orchestrator returns, whatever the
\* outcomes of its steps, given that every client call returns and every wait
\* ends; and when it has returned, it has completed (True), or aborted on a
\* required snapshot that failed (False, no successful step recorded), or
\* failed (False) after the rollback handler went over every recorded
\* successful step, and only one of the three.
C34_ExecuteTerminates ==
    /\ Executing ~> ExecuteReturned
    /\ [](ExecuteReturned =>
            /\ Completed \/ AbortedOnSnapshot \/ FailedAndRolledBack
            /\ ~(Completed /\ AbortedOnSnapshot)
            /\ ~(Completed /\ FailedAndRolledBack)
            /\ ~(AbortedOnSnapshot /\ FailedAndRolledBack))

C34_Witness ==
    /\ ExecuteReturned /\ FailedAndRolledBack
    /\ wf = "restore" /\ Len(execLog) = 6 /\ Len(compLog) = 5
    /\ rbResult = "False"

\* the setMetadata call of step 5 has returned
MetadataWritten ==
    meta.phase = "read" /\ meta'.phase = "idle" /\ Len(execLog') = Len(execLog) + 1

\* C35: the reverse workflow's Set Metadata step never replaces the items of
\* another writer: when the VM's metadata was changed after the step read the
\* items it writes, the write is rejected and the step fails, leaving the
\* other writer's items in place.
C35_StaleWriteRejected ==
    [][ (MetadataWritten /\ meta.clean_metadata # get_clean_metadata(cloud))
          => /\ ~execLog'[Len(execLog')].success
             /\ cloud'.items = cloud.items ]_vars

\* C36: an execute() that returns success = False leaves the remote resource
\* as it was before the call: no stop or start request of the call remains
\* in flight (the status is unchanged), and no disk or snapshot the call
\* asked for exists afterwards; this covers the failures by timeout of
\* StopVM, StartVM, CreateDisk and CreateSnapshot.
C36_FailedExecuteLeavesNothing ==
    [][ (Called /\ ~NewExecuted.success)
          => /\ cloud'.status = cloud.status
             /\ cloud'.disks = cloud.disks
             /\ cloud'.snapshots = cloud.snapshots
             /\ cloud' = cloud ]_vars

\* one more accepted client call was made
Requested == Len(calls') = Len(calls) + 1
NewCall == calls'[Len(calls')]
\* a detach of the device the VM boots from, or an attach with boot = true
IsBootSwap(call, c) ==
    \/ /\ call.api = "instances.detachDisk"
       /\ \E i \in 1..Len(c.attached) :
             c.attached[i].deviceName = call.arg /\ c.attached[i].boot
    \/ /\ call.api = "instances.attachDisk"
       /\ call.arg.boot

\* C37: in either workflow and in every automatic rollback, a detach of the
\* VM's current boot device and an attach with boot = true, by a step or by
\* a compensation, are issued only while the VM's status is TERMINATED.
C37_BootSwapOnlyWhenStopped ==
    [][ (Requested /\ IsBootSwap(NewCall, cloud) /\ manual = 0)
          => cloud.status = "TERMINATED" ]_vars

\* a Start VM step timed out, or its compensation did not return True
StartNotUndone ==
    \/ \E i \in 1..Len(execLog) :
          execLog[i].op = "StartVMOperation" /\ ~execLog[i].success
    \/ \E j \in 1..Len(compLog) :
          compLog[j].op = "StartVMOperation" /\ ~compLog[j].ok

\* C37 as the code has it: a step issues a boot-disk swap only while the VM
\* is TERMINATED, and so does a compensation of an automatic rollback unless
\* a Start VM of the run failed or was not undone: the handler goes on with
\* the remaining compensations whatever the VM's status is.
C37_BootSwapStoppedUnlessStartNotUndone ==
    [][ (Requested /\ IsBootSwap(NewCall, cloud) /\ manual = 0)
          => \/ cloud.status = "TERMINATED"
             \/ pc = "rollback" /\ StartNotUndone ]_vars

C37_Witness ==
    /\ AutoRollbackReturned /\ wf = "rescue"
    /\ Len(execLog) = 7 /\ ~LastExec.success
    /\ \E i \in 1..Len(compLog) :
          compLog[i].op = "StartVMOperation" /\ compLog[i].ok
    /\ \E i, j \in 1..Len(calls) :
          /\ i < j
          /\ calls[i].api = "instances.attachDisk" /\ calls[i].arg.boot
          /\ calls[j].api = "instances.attachDisk" /\ calls[j].arg.boot
          /\ calls[j].arg.source = OrigDisk
          /\ calls[i].status = "TERMINATED" /\ calls[j].status = "TERMINATED"

RollbackReportedSuccess == AutoRollbackReturned /\ rbResult = "True"
FailedStepOf(class) ==
    \E i \in 1..Len(execLog) : execLog[i].op = class /\ ~execLog[i].success

C39_ForwardKeepsUserMetadata ==
    [][ (Called /\ wf = "rescue" /\ NewExecuted.step = "Set Metadata"
           /\ NewExecuted.success)
          => \A i \in 1..Len(cloud.items) :
                cloud.items[i].key \notin RescueKeys
                   => cloud.items[i] \in Range(cloud'.items) ]_vars

\* C40: a reverse workflow that main lets run, its VMRestoreStateValidator
\* having passed, has found a device name for the rescue disk and, through the
\* rescue-original-disk item, one for the original disk: Detach Rescue Disk
\* and Detach Original Disk are never executed with an undefined device name.
C40_ValidatedRestoreResolvesDisks ==
    ( /\ wf = "restore" /\ entry = "main"
      /\ validation # <<>> /\ all_passed(validation)
      /\ pc \in {"Stop VM", "Detach Rescue Disk", "Detach Original Disk"} )
    => /\ info.rescue_device_name # None
       /\ info.original_device_name # None

=============================================================================
